---- MODULE Spec2Model ----
(***************************************************************************)
(* Model of the BankService ledger endpoints (src/main.py) together with   *)
(* the request schemas (src/schemas/account.py) and the persisted entities *)
(* (src/models/account.py, src/models/card.py).                            *)
(*                                                                         *)
(* A client submits one request at a time (Submit); the endpoint that      *)
(* serves it is one atomic action: the request body is validated by the    *)
(* schema validators, the handler body runs on one database session and    *)
(* either commits or raises, and the response is returned.  Money amounts  *)
(* are integers (units of the smallest amount the model distinguishes).    *)
(*                                                                         *)
(* Randomly generated identifiers (account numbers, uuid4 reference        *)
(* numbers) are only ever compared for equality by the unique constraints, *)
(* so the generator is modelled as a choice between every value already    *)
(* in use (a collision) and one canonical unused value.                    *)
(*                                                                         *)
(* users holds the registered users; the callers of the ledger endpoints   *)
(* are authenticated users.                                                *)
(* now is the clock of the database, which stamps the rows it inserts.     *)
(* sessions holds the requests that run side by side, each on a database   *)
(* session of its own, when a handler is followed query by query instead   *)
(* of as one step.  A query without a total order returns its rows in any  *)
(* order.                                                                  *)
(***************************************************************************)
EXTENDS Integers, Sequences, FiniteSets, TLC

VARIABLES users, accounts, transactions, transfers, cards, now, sessions, pending, last

vars == <<users, accounts, transactions, transfers, cards, now, sessions, pending, last>>

(* ------------------------------ bounds --------------------------------- *)
MaxUsers == 2
MaxAccounts == 2
MaxTransactions == 2
MaxTransfers == 1
MaxAmount == 2
MaxCards == 1
MaxClock == 1
MaxSessions == 2
MaxWorkflowTransactions == 3

UserIds == 1..MaxUsers
\* The ids a request can name: those of the accounts of a full store and one more.
AccountIdInputs == 1..(MaxAccounts + 1)
AmountInputs == (-1)..MaxAmount
\* Optional[float] request field: {} is an omitted value (None), {v} is v.
InitialBalanceInputs == {{}, {-1}, {0}, {MaxAmount}}
CreditLimitInputs == {{}, {-1}, {0}, {MaxAmount}}

(* ------------------------------- enums --------------------------------- *)
TransactionType == {"CREDIT", "DEBIT"}
TransactionType_CREDIT == "CREDIT"
TransactionType_DEBIT == "DEBIT"
AccountType == {"CHECKING", "SAVINGS", "BUSINESS"}
AccountTypeInputs == {"CHECKING"}
CardType == {"DEBIT", "CREDIT"}
CardStatus == {"ACTIVE", "BLOCKED", "EXPIRED"}
CardStatus_ACTIVE == "ACTIVE"

(* ------------------------------ responses ------------------------------ *)
HTTP_OK == 200
HTTP_BAD_REQUEST == 400
HTTP_NOT_FOUND == 404
HTTP_UNPROCESSABLE == 422
HTTP_SERVER_ERROR == 500

\* The HTTP response of the latest request: the endpoint, the status code,
\* the error details of a failure and the entity returned by a success.
Response(op, code, detail, body) ==
    [op |-> op, code |-> code, detail |-> detail, body |-> body]

NoResponse == Response("none", 0, {}, {})

(* ------------------------------ requests ------------------------------- *)
\* The request in flight: the endpoint, the authenticated caller, the path
\* parameter and the fields of the request body.
Request(op, user, account_id, to_account_id, transaction_type, amount, initial_balance, account_type, description) ==
    [op |-> op, user |-> user, account_id |-> account_id,
     to_account_id |-> to_account_id, transaction_type |-> transaction_type,
     amount |-> amount, initial_balance |-> initial_balance,
     account_type |-> account_type, description |-> description]

NoRequest == Request("none", 0, 0, 0, "", 0, {}, "", "")

\* A GET request: the endpoint, the caller, the path parameter and the query
\* parameters.
Query(op, user, account_id, skip, limit, start_date, end_date) ==
    [op |-> op, user |-> user, account_id |-> account_id, skip |-> skip,
     limit |-> limit, start_date |-> start_date, end_date |-> end_date]

\* A POST /accounts/{id}/cards request with the fields of CardCreate.
CardRequest(user, account_id, card_type, credit_limit) ==
    [op |-> "create_card", user |-> user, account_id |-> account_id,
     card_type |-> card_type, credit_limit |-> credit_limit]

(* ------------------------------ the store ------------------------------ *)
AccountIds == 1..Len(accounts)

AccountNumbers == {accounts[i].account_number : i \in AccountIds}
TransactionReferences == {transactions[i].reference_number : i \in 1..Len(transactions)}
TransferReferences == {transfers[i].reference_number : i \in 1..Len(transfers)}

\* A value of the generator that is not in use.
Fresh(used) == CHOOSE n \in 1..(Cardinality(used) + 1) : n \notin used
\* Every outcome of a random generator up to renaming of unused values.
Generated(used) == used \cup {Fresh(used)}

\* OwnedAccount without the filter on the owner.
OwnedAccount_any_owner(account_id, user) == {i \in AccountIds : i = account_id}

\* db.query(Account).filter(Account.id == id, Account.user_id == user).first()
\* as the set holding the row found, empty when there is none.
OwnedAccount(account_id, user) ==
    {i \in AccountIds : i = account_id /\ accounts[i].user_id = user}

\* db.query(Account).filter(Account.id == id).first()
AnyAccount(account_id) == {i \in AccountIds : i = account_id}

(* ------------------------------- schemas ------------------------------- *)
\* validate_amount with the bound moved: zero is let through.
validate_amount_allows_zero(value) == ~(value < 0)

\* TransactionBase.validate_amount / TransferBase.validate_amount
validate_amount(value) == ~(value <= 0)

\* validate_different_accounts that never raises.
validate_different_accounts_skipped(value, from_account_id) == TRUE

\* TransferBase.validate_different_accounts: value is to_account_id, the
\* already validated from_account_id is in values.
validate_different_accounts(value, from_account_id) == ~(value = from_account_id)

\* `account_create.initial_balance or 0.0`: None and 0 are both falsy.
OrZero(optional) ==
    IF optional = {} \/ optional = {0} THEN 0 ELSE CHOOSE v \in optional : TRUE

(* ------------------------------ entities ------------------------------- *)
\* Account(user_id=..., account_type=..., balance=...) with the account
\* number assigned in the constructor and the id by the store.
Account(id, user_id, account_number, account_type, balance) ==
    [id |-> id, user_id |-> user_id, account_number |-> account_number,
     account_type |-> account_type, balance |-> balance]

\* timestamp has the column default func.now(): the clock when the row is
\* inserted.
Transaction(id, account_id, transaction_type, amount, description, reference_number) ==
    [id |-> id, account_id |-> account_id, transaction_type |-> transaction_type,
     amount |-> amount, description |-> description,
     reference_number |-> reference_number, timestamp |-> now]

Transfer(id, from_account_id, to_account_id, amount, description, reference_number) ==
    [id |-> id, from_account_id |-> from_account_id, to_account_id |-> to_account_id,
     amount |-> amount, description |-> description,
     reference_number |-> reference_number, timestamp |-> now]

DescriptionInputs == {"memo"}

(* ---------------------------- POST /signup ---------------------------- *)
\* An e-mail address is the name of a mailbox and a domain; a text that is
\* no address has no domain.
Domains == {"example.com", "EXAMPLE.COM"}
NotAnEmail == <<0, "">>

\* The domain in lower case.
lower(domain) == IF domain = "EXAMPLE.COM" THEN "example.com" ELSE domain

\* EmailStr: the address is rejected unless it is well-formed, and the
\* validated value has its domain in lower case.
EmailStr_valid(email) == email[2] \in Domains
EmailStr(email) == <<email[1], lower(email[2])>>

\* UserCreate.validate_password
validate_password(value) == ~(Len(value) < 8)

get_password_hash(password) == <<"hash", password>>

\* User(email=..., hashed_password=..., full_name=..., phone_number=...)
\* with the id assigned by the store.
User(id, email, hashed_password, full_name, phone_number) ==
    [id |-> id, email |-> email, hashed_password |-> hashed_password,
     full_name |-> full_name, phone_number |-> phone_number]

\* The users who call the ledger endpoints have signed up.
RegisteredUsers ==
    [id \in 1..MaxUsers |->
        User(id, <<id, "example.com">>, get_password_hash("testpassword123"),
             "Test User", {})]

\* POST /signup with the fields of UserCreate.
SignupRequest(email, password, full_name, phone_number) ==
    [op |-> "signup", email |-> email, password |-> password,
     full_name |-> full_name, phone_number |-> phone_number]

\* db.query(User).filter(User.email == email).first()
existing_user(email) == {i \in 1..Len(users) : users[i].email = email}

\* signup whose lookup of the existing user finds nothing.
signup_result_unchecked(email, password) ==
    IF ~EmailStr_valid(email) \/ ~validate_password(password)
    THEN [code |-> HTTP_UNPROCESSABLE,
          detail |-> (IF EmailStr_valid(email) THEN {} ELSE {"value is not a valid email address"})
                     \cup (IF validate_password(password) THEN {}
                           ELSE {"Password must be at least 8 characters long"})]
    ELSE [code |-> HTTP_OK, detail |-> {}]

\* What signup decides before it constructs the User: the validation of the
\* request body, then the lookup of the e-mail address.
signup_result(email, password) ==
    IF ~EmailStr_valid(email) \/ ~validate_password(password)
    THEN [code |-> HTTP_UNPROCESSABLE,
          detail |-> (IF EmailStr_valid(email) THEN {} ELSE {"value is not a valid email address"})
                     \cup (IF validate_password(password) THEN {}
                           ELSE {"Password must be at least 8 characters long"})]
    ELSE IF existing_user(EmailStr(email)) # {}
    THEN [code |-> HTTP_BAD_REQUEST, detail |-> {"Email already registered"}]
    ELSE [code |-> HTTP_OK, detail |-> {}]

signup(email, password, full_name, phone_number) ==
    LET result == signup_result(email, password)
        user == User(Len(users) + 1, EmailStr(email), get_password_hash(password),
                     full_name, phone_number)
    IN  /\ IF result.code = HTTP_OK
           THEN /\ users' = Append(users, user)
                /\ last' = Response("signup", HTTP_OK, {}, {user})
           ELSE /\ users' = users
                /\ last' = Response("signup", result.code, result.detail, {})
        /\ pending' = NoRequest
        /\ UNCHANGED <<accounts, transactions, transfers, cards>>

(* --------------------------- POST /accounts ---------------------------- *)
\* create_account_result on a table without the unique constraint.
create_account_result_unconstrained(account_number) ==
    [code |-> HTTP_OK, detail |-> {}]

\* The request body has no validator.  The commit fails on the unique
\* constraint of account_number when the generated number is in use.
create_account_result(account_number) ==
    IF account_number \in AccountNumbers
    THEN [code |-> HTTP_SERVER_ERROR, detail |-> {"IntegrityError"}]
    ELSE [code |-> HTTP_OK, detail |-> {}]

\* create_account that stores the new account in the place of the newest one.
create_account_replacing(user, account_type, initial_balance) ==
    \E account_number \in Generated(AccountNumbers) :
        LET result == create_account_result(account_number)
            account == Account(Len(accounts) + 1, user, account_number, account_type,
                               OrZero(initial_balance))
        IN  /\ IF result.code = HTTP_OK
               THEN /\ accounts' = IF accounts = <<>> THEN <<account>>
                                   ELSE [accounts EXCEPT ![Len(accounts)] = account]
                    /\ last' = Response("create_account", HTTP_OK, {}, {account})
               ELSE /\ accounts' = accounts
                    /\ last' = Response("create_account", result.code, result.detail, {})
            /\ pending' = NoRequest
            /\ UNCHANGED <<transactions, transfers, cards>>

create_account(user, account_type, initial_balance) ==
    \E account_number \in Generated(AccountNumbers) :
        LET result == create_account_result(account_number)
            account == Account(Len(accounts) + 1, user, account_number, account_type,
                               OrZero(initial_balance))
        IN  /\ IF result.code = HTTP_OK
               THEN /\ accounts' = Append(accounts, account)
                    /\ last' = Response("create_account", HTTP_OK, {}, {account})
               ELSE /\ accounts' = accounts
                    /\ last' = Response("create_account", result.code, result.detail, {})
            /\ pending' = NoRequest
            /\ UNCHANGED <<transactions, transfers, cards>>

(* ------------------ POST /accounts/{id}/transactions ------------------- *)
\* `transaction_type == "debit" and account.balance < amount`
transaction_insufficient_funds(transaction_type, balance, amount) ==
    transaction_type = "debit" /\ balance < amount

\* transaction_new_balance with the sign of the else branch flipped.
transaction_new_balance_sign_flipped(transaction_type, balance, amount) ==
    IF transaction_type = "credit" THEN balance + amount ELSE balance + amount

\* transaction_new_balance that compares with the value of the enum member.
transaction_new_balance_by_member(transaction_type, balance, amount) ==
    IF transaction_type = TransactionType_CREDIT THEN balance + amount ELSE balance - amount

\* `if transaction_type == "credit": balance += amount else: balance -= amount`
transaction_new_balance(transaction_type, balance, amount) ==
    IF transaction_type = "credit" THEN balance + amount ELSE balance - amount

\* What create_transaction decides before it constructs the Transaction, in
\* the order the request validation and the handler decide it.  reads is
\* the set of account ids the handler has queried.
create_transaction_result(user, account_id, transaction_type, amount) ==
    IF ~validate_amount(amount)
    THEN [code |-> HTTP_UNPROCESSABLE, detail |-> {"Amount must be positive"}, reads |-> {}]
    ELSE IF OwnedAccount(account_id, user) = {}
    THEN [code |-> HTTP_NOT_FOUND, detail |-> {"Account not found"}, reads |-> {account_id}]
    ELSE IF transaction_insufficient_funds(transaction_type, accounts[account_id].balance, amount)
    THEN [code |-> HTTP_BAD_REQUEST, detail |-> {"Insufficient funds"}, reads |-> {account_id}]
    ELSE [code |-> HTTP_OK, detail |-> {}, reads |-> {account_id}]

\* create_transaction_commit that writes the new balance to every account.
create_transaction_commit_every_account(account_id, transaction_type, amount, description, reference_number) ==
    LET transaction == Transaction(Len(transactions) + 1, account_id, transaction_type,
                                   amount, <<description>>, reference_number)
    IN  IF reference_number \in TransactionReferences
        THEN /\ UNCHANGED <<accounts, transactions>>
             /\ last' = Response("create_transaction", HTTP_SERVER_ERROR,
                                 {"IntegrityError"}, {})
        ELSE /\ accounts' = [i \in AccountIds |-> [accounts[i] EXCEPT !.balance =
                               transaction_new_balance(transaction_type,
                                   accounts[account_id].balance, amount)]]
             /\ transactions' = Append(transactions, transaction)
             /\ last' = Response("create_transaction", HTTP_OK, {}, {transaction})

\* db.commit(): the balance and the Transaction row together, or neither
\* when the reference number violates its unique constraint.
create_transaction_commit(account_id, transaction_type, amount, description, reference_number) ==
    LET transaction == Transaction(Len(transactions) + 1, account_id, transaction_type,
                                   amount, <<description>>, reference_number)
    IN  IF reference_number \in TransactionReferences
        THEN /\ UNCHANGED <<accounts, transactions>>
             /\ last' = Response("create_transaction", HTTP_SERVER_ERROR,
                                 {"IntegrityError"}, {})
        ELSE /\ accounts' = [accounts EXCEPT ![account_id].balance =
                               transaction_new_balance(transaction_type, @, amount)]
             /\ transactions' = Append(transactions, transaction)
             /\ last' = Response("create_transaction", HTTP_OK, {}, {transaction})

create_transaction(user, account_id, transaction_type, amount, description) ==
    LET result == create_transaction_result(user, account_id, transaction_type, amount)
    IN  /\ IF result.code = HTTP_OK
           THEN \E reference_number \in Generated(TransactionReferences) :
                     create_transaction_commit(account_id, transaction_type, amount,
                                               description, reference_number)
           ELSE /\ UNCHANGED <<accounts, transactions>>
                /\ last' = Response("create_transaction", result.code, result.detail, {})
        /\ pending' = NoRequest
        /\ UNCHANGED <<transfers, cards>>

(* --------------------------- POST /transfers --------------------------- *)
\* The errors of the TransferCreate body: every failing field validator
\* contributes its message to the 422 response.
TransferCreate_errors(from_account_id, to_account_id, amount) ==
    (IF validate_different_accounts(to_account_id, from_account_id)
     THEN {} ELSE {"Cannot transfer to the same account"})
    \cup (IF validate_amount(amount) THEN {} ELSE {"Amount must be positive"})

\* transfer_insufficient_funds that also refuses the whole balance.
transfer_insufficient_funds_inclusive(balance, amount) == balance <= amount

\* `source_account.balance < transfer_create.amount`
transfer_insufficient_funds(balance, amount) == balance < amount

\* create_transfer_result that looks the destination up among the caller's
\* accounts.
create_transfer_result_destination_owned(user, from_account_id, to_account_id, amount) ==
    LET errors == TransferCreate_errors(from_account_id, to_account_id, amount)
        source_found == OwnedAccount(from_account_id, user) # {}
        dest_found == OwnedAccount(to_account_id, user) # {}
    IN  IF errors # {}
        THEN [code |-> HTTP_UNPROCESSABLE, detail |-> errors, reads |-> {},
              source_found |-> FALSE, dest_found |-> FALSE]
        ELSE IF ~source_found
        THEN [code |-> HTTP_NOT_FOUND, detail |-> {"Source account not found"},
              reads |-> {from_account_id}, source_found |-> FALSE, dest_found |-> FALSE]
        ELSE IF ~dest_found
        THEN [code |-> HTTP_NOT_FOUND, detail |-> {"Destination account not found"},
              reads |-> {from_account_id, to_account_id},
              source_found |-> TRUE, dest_found |-> FALSE]
        ELSE IF transfer_insufficient_funds(accounts[from_account_id].balance, amount)
        THEN [code |-> HTTP_BAD_REQUEST, detail |-> {"Insufficient funds"},
              reads |-> {from_account_id, to_account_id},
              source_found |-> TRUE, dest_found |-> TRUE]
        ELSE [code |-> HTTP_OK, detail |-> {},
              reads |-> {from_account_id, to_account_id},
              source_found |-> TRUE, dest_found |-> TRUE]

\* create_transfer_result that compares the amount with the source's balance
\* before it checks who owns the source.
create_transfer_result_funds_first(user, from_account_id, to_account_id, amount) ==
    LET errors == TransferCreate_errors(from_account_id, to_account_id, amount)
        source_found == OwnedAccount(from_account_id, user) # {}
        dest_found == AnyAccount(to_account_id) # {}
    IN  IF errors # {}
        THEN [code |-> HTTP_UNPROCESSABLE, detail |-> errors, reads |-> {},
              source_found |-> FALSE, dest_found |-> FALSE]
        ELSE IF /\ AnyAccount(from_account_id) # {}
                /\ transfer_insufficient_funds(accounts[from_account_id].balance, amount)
        THEN [code |-> HTTP_BAD_REQUEST, detail |-> {"Insufficient funds"},
              reads |-> {from_account_id},
              source_found |-> source_found, dest_found |-> FALSE]
        ELSE IF ~source_found
        THEN [code |-> HTTP_NOT_FOUND, detail |-> {"Source account not found"},
              reads |-> {from_account_id}, source_found |-> FALSE, dest_found |-> FALSE]
        ELSE IF ~dest_found
        THEN [code |-> HTTP_NOT_FOUND, detail |-> {"Destination account not found"},
              reads |-> {from_account_id, to_account_id},
              source_found |-> TRUE, dest_found |-> FALSE]
        ELSE [code |-> HTTP_OK, detail |-> {},
              reads |-> {from_account_id, to_account_id},
              source_found |-> TRUE, dest_found |-> TRUE]

\* What create_transfer decides before it constructs the records.
\* source_found and dest_found say that the handler's source_account and
\* dest_account queries returned a row.
create_transfer_result(user, from_account_id, to_account_id, amount) ==
    LET errors == TransferCreate_errors(from_account_id, to_account_id, amount)
        source_found == OwnedAccount(from_account_id, user) # {}
        dest_found == AnyAccount(to_account_id) # {}
    IN  IF errors # {}
        THEN [code |-> HTTP_UNPROCESSABLE, detail |-> errors, reads |-> {},
              source_found |-> FALSE, dest_found |-> FALSE]
        ELSE IF ~source_found
        THEN [code |-> HTTP_NOT_FOUND, detail |-> {"Source account not found"},
              reads |-> {from_account_id}, source_found |-> FALSE, dest_found |-> FALSE]
        ELSE IF ~dest_found
        THEN [code |-> HTTP_NOT_FOUND, detail |-> {"Destination account not found"},
              reads |-> {from_account_id, to_account_id},
              source_found |-> TRUE, dest_found |-> FALSE]
        ELSE IF transfer_insufficient_funds(accounts[from_account_id].balance, amount)
        THEN [code |-> HTTP_BAD_REQUEST, detail |-> {"Insufficient funds"},
              reads |-> {from_account_id, to_account_id},
              source_found |-> TRUE, dest_found |-> TRUE]
        ELSE [code |-> HTTP_OK, detail |-> {},
              reads |-> {from_account_id, to_account_id},
              source_found |-> TRUE, dest_found |-> TRUE]

\* transfer_balances that forgets to credit the destination.
transfer_balances_debit_only(from_account_id, to_account_id, amount) ==
    [accounts EXCEPT ![from_account_id].balance = @ - amount]

\* `source_account.balance -= amount; dest_account.balance += amount`
transfer_balances(from_account_id, to_account_id, amount) ==
    [accounts EXCEPT ![from_account_id].balance = @ - amount,
                     ![to_account_id].balance = @ + amount]

\* The two Transaction rows of a transfer, in the order add_all stages them.
transfer_transactions(from_account_id, to_account_id, amount, description, debit_reference, credit_reference) ==
    << Transaction(Len(transactions) + 1, from_account_id, TransactionType_DEBIT, amount,
                   <<"Transfer to account", to_account_id, description>>, debit_reference),
       Transaction(Len(transactions) + 2, to_account_id, TransactionType_CREDIT, amount,
                   <<"Transfer from account", from_account_id, description>>,
                   credit_reference) >>

\* create_transfer_commit that writes the balances before the rows: a
\* rejected row leaves the balances moved.
create_transfer_commit_not_atomic(from_account_id, to_account_id, amount, description, transfer_reference, debit_reference, credit_reference) ==
    LET transfer == Transfer(Len(transfers) + 1, from_account_id, to_account_id, amount,
                             description, transfer_reference)
    IN  IF \/ transfer_reference \in TransferReferences
           \/ debit_reference \in TransactionReferences
           \/ credit_reference \in TransactionReferences \cup {debit_reference}
        THEN /\ accounts' = transfer_balances(from_account_id, to_account_id, amount)
             /\ UNCHANGED <<transactions, transfers>>
             /\ last' = Response("create_transfer", HTTP_SERVER_ERROR, {"IntegrityError"}, {})
        ELSE /\ accounts' = transfer_balances(from_account_id, to_account_id, amount)
             /\ transfers' = Append(transfers, transfer)
             /\ transactions' = transactions \o
                    transfer_transactions(from_account_id, to_account_id, amount,
                                          description, debit_reference, credit_reference)
             /\ last' = Response("create_transfer", HTTP_OK, {}, {transfer})

\* db.commit(): both balances and the three rows together, or nothing when
\* a reference number violates its unique constraint.
create_transfer_commit(from_account_id, to_account_id, amount, description, transfer_reference, debit_reference, credit_reference) ==
    LET transfer == Transfer(Len(transfers) + 1, from_account_id, to_account_id, amount,
                             description, transfer_reference)
    IN  IF \/ transfer_reference \in TransferReferences
           \/ debit_reference \in TransactionReferences
           \/ credit_reference \in TransactionReferences \cup {debit_reference}
        THEN /\ UNCHANGED <<accounts, transactions, transfers>>
             /\ last' = Response("create_transfer", HTTP_SERVER_ERROR, {"IntegrityError"}, {})
        ELSE /\ accounts' = transfer_balances(from_account_id, to_account_id, amount)
             /\ transfers' = Append(transfers, transfer)
             /\ transactions' = transactions \o
                    transfer_transactions(from_account_id, to_account_id, amount,
                                          description, debit_reference, credit_reference)
             /\ last' = Response("create_transfer", HTTP_OK, {}, {transfer})

create_transfer(user, from_account_id, to_account_id, amount, description) ==
    LET result == create_transfer_result(user, from_account_id, to_account_id, amount)
    IN  /\ IF result.code = HTTP_OK
           THEN \E transfer_reference \in Generated(TransferReferences),
                   debit_reference \in Generated(TransactionReferences) :
                  \E credit_reference \in
                        Generated(TransactionReferences \cup {debit_reference}) :
                     create_transfer_commit(from_account_id, to_account_id, amount,
                                            description, transfer_reference,
                                            debit_reference, credit_reference)
           ELSE /\ UNCHANGED <<accounts, transactions, transfers>>
                /\ last' = Response("create_transfer", result.code, result.detail, {})
        /\ pending' = NoRequest
        /\ UNCHANGED cards

(* ------------------------------- queries ------------------------------- *)
\* Query.all() on the rows with the given indices of a table: the rows come
\* back in an order the database chooses, each row once.
Orderings(table, rows) ==
    {[k \in 1..Cardinality(rows) |-> table[f[k]]] :
        f \in {g \in [1..Cardinality(rows) -> rows] :
                 \A j, k \in 1..Cardinality(rows) : g[j] = g[k] => j = k}}

\* Query.offset(skip).limit(limit) applied to the rows in the order chosen.
OffsetLimit(ordering, skip, limit) ==
    SubSeq(ordering, skip + 1, IF skip + limit < Len(ordering) THEN skip + limit
                               ELSE Len(ordering))

\* Sorted on timestamp with the newest row first; rows of one timestamp are
\* in no particular order.
TimestampDescending(ordering) ==
    \A j, k \in 1..Len(ordering) :
        j < k => ordering[j].timestamp >= ordering[k].timestamp

(* ------------------------ GET /accounts[/{id}] ------------------------- *)
\* get_user_accounts without the filter on the owner.
get_user_accounts_every_owner(user) ==
    /\ \E body \in Orderings(accounts, AccountIds) :
         last' = Response("get_user_accounts", HTTP_OK, {}, body)
    /\ pending' = NoRequest
    /\ UNCHANGED <<accounts, transactions, transfers, cards>>

get_user_accounts(user) ==
    /\ \E body \in Orderings(accounts, {i \in AccountIds : accounts[i].user_id = user}) :
         last' = Response("get_user_accounts", HTTP_OK, {}, body)
    /\ pending' = NoRequest
    /\ UNCHANGED <<accounts, transactions, transfers, cards>>

\* get_account that returns the first account of the caller whatever the id.
get_account_first_owned(user, account_id) ==
    /\ IF OwnedAccount(account_id, user) = {}
       THEN last' = Response("get_account", HTTP_NOT_FOUND, {"Account not found"}, {})
       ELSE last' = Response("get_account", HTTP_OK, {},
                             {accounts[CHOOSE i \in AccountIds : accounts[i].user_id = user]})
    /\ pending' = NoRequest
    /\ UNCHANGED <<accounts, transactions, transfers, cards>>

get_account(user, account_id) ==
    /\ IF OwnedAccount(account_id, user) = {}
       THEN last' = Response("get_account", HTTP_NOT_FOUND, {"Account not found"}, {})
       ELSE last' = Response("get_account", HTTP_OK, {}, {accounts[account_id]})
    /\ pending' = NoRequest
    /\ UNCHANGED <<accounts, transactions, transfers, cards>>

(* ------------------- GET /accounts/{id}/transactions ------------------- *)
get_account_transactions(user, account_id, skip, limit) ==
    /\ IF OwnedAccount(account_id, user) = {}
       THEN last' = Response("get_account_transactions", HTTP_NOT_FOUND,
                             {"Account not found"}, {})
       ELSE \E ordering \in Orderings(transactions,
                    {i \in 1..Len(transactions) : transactions[i].account_id = account_id}) :
              last' = Response("get_account_transactions", HTTP_OK, {},
                               OffsetLimit(ordering, skip, limit))
    /\ pending' = NoRequest
    /\ UNCHANGED <<accounts, transactions, transfers, cards>>

(* ---------------------------- GET /transfers --------------------------- *)
\* get_user_transfers that looks at the source account only.
get_user_transfers_sent_only(user) ==
    LET user_account_ids == {i \in AccountIds : accounts[i].user_id = user}
    IN  /\ \E body \in Orderings(transfers,
                    {i \in 1..Len(transfers) :
                        transfers[i].from_account_id \in user_account_ids}) :
              last' = Response("get_user_transfers", HTTP_OK, {}, body)
        /\ pending' = NoRequest
        /\ UNCHANGED <<accounts, transactions, transfers, cards>>

\* The ids of the caller's accounts, then the transfers whose
\* from_account_id or to_account_id is one of them.
get_user_transfers(user) ==
    LET user_account_ids == {i \in AccountIds : accounts[i].user_id = user}
    IN  /\ \E body \in Orderings(transfers,
                    {i \in 1..Len(transfers) :
                        \/ transfers[i].from_account_id \in user_account_ids
                        \/ transfers[i].to_account_id \in user_account_ids}) :
              last' = Response("get_user_transfers", HTTP_OK, {}, body)
        /\ pending' = NoRequest
        /\ UNCHANGED <<accounts, transactions, transfers, cards>>

(* ---------------------- /accounts/{id}/cards --------------------------- *)
CardNumbers == {cards[i].card_number : i \in 1..Len(cards)}

\* The credit limit of the row: 0.0 when the request leaves the field out
\* (the default of CardBase) or gives null (the default of the column), the
\* value of the request otherwise.
credit_limit_or_default(optional) ==
    IF optional = {} THEN 0 ELSE CHOOSE v \in optional : TRUE

\* Card whose status is not set to the default of the column.
Card_status_unset(id, account_id, card_number, card_type, credit_limit) ==
    [id |-> id, account_id |-> account_id, card_number |-> card_number,
     card_type |-> card_type, status |-> "",
     credit_limit |-> credit_limit_or_default(credit_limit)]

\* Card(account_id=..., card_number=..., card_type=..., credit_limit=...):
\* status takes its column default.
Card(id, account_id, card_number, card_type, credit_limit) ==
    [id |-> id, account_id |-> account_id, card_number |-> card_number,
     card_type |-> card_type, status |-> CardStatus_ACTIVE,
     credit_limit |-> credit_limit_or_default(credit_limit)]

\* What create_card decides before it constructs the Card; CardCreate has no
\* validator.
create_card_result(user, account_id) ==
    IF OwnedAccount(account_id, user) = {}
    THEN [code |-> HTTP_NOT_FOUND, detail |-> {"Account not found"}]
    ELSE [code |-> HTTP_OK, detail |-> {}]

\* create_card that draws the card number and meets its unique constraint
\* before it looks the account up.
create_card_generating_first(user, account_id, card_type, credit_limit) ==
    LET result == create_card_result(user, account_id)
    IN  /\ \E card_number \in Generated(CardNumbers) :
              LET card == Card(Len(cards) + 1, account_id, card_number, card_type,
                               credit_limit)
              IN  IF card_number \in CardNumbers
                  THEN /\ cards' = cards
                       /\ last' = Response("create_card", HTTP_SERVER_ERROR,
                                           {"IntegrityError"}, {})
                  ELSE IF result.code = HTTP_OK
                  THEN /\ cards' = Append(cards, card)
                       /\ last' = Response("create_card", HTTP_OK, {}, {card})
                  ELSE /\ cards' = cards
                       /\ last' = Response("create_card", result.code, result.detail, {})
        /\ pending' = NoRequest
        /\ UNCHANGED <<accounts, transactions, transfers>>

create_card(user, account_id, card_type, credit_limit) ==
    LET result == create_card_result(user, account_id)
    IN  /\ IF result.code = HTTP_OK
           THEN \E card_number \in Generated(CardNumbers) :
                  LET card == Card(Len(cards) + 1, account_id, card_number, card_type,
                                   credit_limit)
                  IN  IF card_number \in CardNumbers
                      THEN /\ cards' = cards
                           /\ last' = Response("create_card", HTTP_SERVER_ERROR,
                                               {"IntegrityError"}, {})
                      ELSE /\ cards' = Append(cards, card)
                           /\ last' = Response("create_card", HTTP_OK, {}, {card})
           ELSE /\ cards' = cards
                /\ last' = Response("create_card", result.code, result.detail, {})
        /\ pending' = NoRequest
        /\ UNCHANGED <<accounts, transactions, transfers>>

(* ------------------------ the card number ------------------------------ *)
MaxOffset == 0

\* Python's integers are unbounded; an integer n is held here as the pair
\* <<n \div LimbBase, n % LimbBase>>.
LimbBase == 100000000

\* The arguments of `random.randint(100000000000000, 999999999999999)`.
randint_low == <<1000000, 0>>
randint_high == <<9999999, 99999999>>

leq(m, n) == m[1] < n[1] \/ (m[1] = n[1] /\ m[2] <= n[2])

\* The integers within MaxOffset of a limb's ends, and some powers of ten.
LimbSamples(low, high) ==
    {v \in {low + k : k \in 0..MaxOffset} \cup {high - k : k \in 0..MaxOffset}
           \cup {10, 1000, 1000000} :
        low <= v /\ v <= high}

\* random.randint(a, b): any integer N with a <= N <= b.
randint(a, b) ==
    {n \in LimbSamples(a[1], b[1]) \X LimbSamples(0, LimbBase - 1) :
        leq(a, n) /\ leq(n, b)}

\* n // 10 and n % 10.
floordiv10(n) == <<n[1] \div 10, ((n[1] % 10) * LimbBase + n[2]) \div 10>>
mod10(n) == n[2] % 10

\* str(n) of a non-negative integer: its decimal digits, most significant
\* first, without leading zeros.
RECURSIVE str(_)
str(n) ==
    IF n[1] = 0 /\ n[2] < 10
    THEN <<n[2]>>
    ELSE Append(str(floordiv10(n)), mod10(n))

\* format_card_number that leaves the leading "4" out.
format_card_number_unprefixed(n) == str(n)

\* `f"4{n}"`: the character 4 followed by str(n).
format_card_number(n) == <<4>> \o str(n)

\* create_card with the card number as the handler builds it.
create_card_numbered(user, account_id, card_type, credit_limit) ==
    LET result == create_card_result(user, account_id)
    IN  /\ IF result.code = HTTP_OK
           THEN \E n \in randint(randint_low, randint_high) :
                  LET card_number == format_card_number(n)
                      card == Card(Len(cards) + 1, account_id, card_number, card_type,
                                   credit_limit)
                  IN  IF card_number \in CardNumbers
                      THEN /\ cards' = cards
                           /\ last' = Response("create_card", HTTP_SERVER_ERROR,
                                               {"IntegrityError"}, {})
                      ELSE /\ cards' = Append(cards, card)
                           /\ last' = Response("create_card", HTTP_OK, {}, {card})
           ELSE /\ cards' = cards
                /\ last' = Response("create_card", result.code, result.detail, {})
        /\ pending' = NoRequest
        /\ UNCHANGED <<accounts, transactions, transfers>>

\* get_account_cards that marks the cards it lists as expired.
get_account_cards_expiring(user, account_id) ==
    /\ IF OwnedAccount(account_id, user) = {}
       THEN /\ last' = Response("get_account_cards", HTTP_NOT_FOUND, {"Account not found"}, {})
            /\ cards' = cards
       ELSE /\ \E body \in Orderings(cards,
                      {i \in 1..Len(cards) : cards[i].account_id = account_id}) :
                last' = Response("get_account_cards", HTTP_OK, {}, body)
            /\ cards' = [i \in 1..Len(cards) |->
                            IF cards[i].account_id = account_id
                            THEN [cards[i] EXCEPT !.status = "EXPIRED"] ELSE cards[i]]
    /\ pending' = NoRequest
    /\ UNCHANGED <<accounts, transactions, transfers>>

get_account_cards(user, account_id) ==
    /\ IF OwnedAccount(account_id, user) = {}
       THEN last' = Response("get_account_cards", HTTP_NOT_FOUND, {"Account not found"}, {})
       ELSE \E body \in Orderings(cards,
                    {i \in 1..Len(cards) : cards[i].account_id = account_id}) :
              last' = Response("get_account_cards", HTTP_OK, {}, body)
    /\ pending' = NoRequest
    /\ UNCHANGED <<accounts, transactions, transfers, cards>>

(* -------------------- GET /accounts/{id}/statements -------------------- *)
\* A date string of the query: the text of datetime t in ISO format, the
\* empty string, or a text that is no date.
isoformat(t) == <<"iso", t>>
EmptyString == <<"", 0>>
NotADate == <<"yesterday", 0>>

\* `if start_date:` is false for None and for the empty string.
Truthy(optional_string) == optional_string # {} /\ optional_string # {EmptyString}

\* datetime.fromisoformat(s) raises ValueError unless s is in ISO format.
fromisoformat_raises(optional_string) ==
    Truthy(optional_string) /\ \E s \in optional_string : s[1] # "iso"

fromisoformat(optional_string) == (CHOOSE s \in optional_string : TRUE)[2]

\* statement_rows that leaves out the rows stamped start_date itself.
statement_rows_after_start(account_id, start_date, end_date) ==
    {i \in 1..Len(transactions) :
        /\ transactions[i].account_id = account_id
        /\ Truthy(start_date) => transactions[i].timestamp > fromisoformat(start_date)
        /\ Truthy(end_date) => transactions[i].timestamp <= fromisoformat(end_date)}

\* The rows the statement query selects: those of the account, from
\* start_date on when it is given and up to end_date when it is given.
statement_rows(account_id, start_date, end_date) ==
    {i \in 1..Len(transactions) :
        /\ transactions[i].account_id = account_id
        /\ Truthy(start_date) => transactions[i].timestamp >= fromisoformat(start_date)
        /\ Truthy(end_date) => transactions[i].timestamp <= fromisoformat(end_date)}

\* query.order_by(Transaction.timestamp.desc()).all(): every sequence the
\* database can return for the query.
statement_results(account_id, start_date, end_date) ==
    {ordering \in Orderings(transactions,
                           statement_rows(account_id, start_date, end_date)) :
        TimestampDescending(ordering)}

get_account_statement(user, account_id, start_date, end_date) ==
    /\ IF OwnedAccount(account_id, user) = {}
       THEN last' = Response("get_account_statement", HTTP_NOT_FOUND,
                             {"Account not found"}, {})
       ELSE IF fromisoformat_raises(start_date) \/ fromisoformat_raises(end_date)
       THEN last' = Response("get_account_statement", HTTP_SERVER_ERROR, {"ValueError"}, {})
       ELSE \E body \in statement_results(account_id, start_date, end_date) :
              last' = Response("get_account_statement", HTTP_OK, {}, body)
    /\ pending' = NoRequest
    /\ UNCHANGED <<accounts, transactions, transfers, cards>>

(* ------------------------------- system -------------------------------- *)
Init ==
    /\ users = RegisteredUsers
    /\ accounts = <<>>
    /\ transactions = <<>>
    /\ transfers = <<>>
    /\ cards = <<>>
    /\ now = 0
    /\ sessions = <<>>
    /\ pending = NoRequest
    /\ last = NoResponse

CreateAccountRequests ==
    {Request("create_account", user, 0, 0, "", 0, initial_balance, account_type, "") :
        user \in UserIds, initial_balance \in InitialBalanceInputs,
        account_type \in AccountTypeInputs}

CreateTransactionRequests ==
    {Request("create_transaction", user, account_id, 0, transaction_type, amount, {}, "",
             description) :
        user \in UserIds, account_id \in AccountIdInputs,
        transaction_type \in TransactionType, amount \in AmountInputs,
        description \in DescriptionInputs}

CreateTransferRequests ==
    {Request("create_transfer", user, from_account_id, to_account_id, "", amount, {}, "",
             description) :
        user \in UserIds, from_account_id \in AccountIdInputs,
        to_account_id \in AccountIdInputs, amount \in AmountInputs,
        description \in DescriptionInputs}

\* A client sends a request once the previous one has been answered.
Submit(requests) ==
    /\ pending = NoRequest
    /\ \E request \in requests : pending' = request
    /\ last' = NoResponse
    /\ UNCHANGED <<users, accounts, transactions, transfers, cards, now, sessions>>

\* The endpoints serve a request while the tables it would grow are within
\* the bounds of the model.
CreateAccount ==
    /\ pending.op = "create_account"
    /\ Len(accounts) < MaxAccounts
    /\ create_account(pending.user, pending.account_type, pending.initial_balance)
    /\ UNCHANGED <<users, now, sessions>>

CreateTransaction ==
    /\ pending.op = "create_transaction"
    /\ create_transaction_result(pending.user, pending.account_id,
                                 pending.transaction_type, pending.amount).code = HTTP_OK
         => Len(transactions) < MaxTransactions
    /\ create_transaction(pending.user, pending.account_id, pending.transaction_type,
                          pending.amount, pending.description)
    /\ UNCHANGED <<users, now, sessions>>

CreateTransfer ==
    /\ pending.op = "create_transfer"
    /\ create_transfer_result(pending.user, pending.account_id, pending.to_account_id,
                              pending.amount).code = HTTP_OK
         => Len(transfers) < MaxTransfers /\ Len(transactions) + 2 <= MaxTransactions
    /\ create_transfer(pending.user, pending.account_id, pending.to_account_id,
                       pending.amount, pending.description)
    /\ UNCHANGED <<users, now, sessions>>

CreateCardRequests ==
    {CardRequest(user, account_id, card_type, credit_limit) :
        user \in UserIds, account_id \in AccountIdInputs, card_type \in CardType,
        credit_limit \in CreditLimitInputs}

GetUserAccountsRequests ==
    {Query("get_user_accounts", user, 0, 0, 0, {}, {}) : user \in UserIds}

GetAccountRequests ==
    {Query("get_account", user, account_id, 0, 0, {}, {}) :
        user \in UserIds, account_id \in AccountIdInputs}

\* skip and limit have the defaults of the endpoint.
GetAccountTransactionsRequests ==
    {Query("get_account_transactions", user, account_id, 0, 100, {}, {}) :
        user \in UserIds, account_id \in AccountIdInputs}

GetAccountCardsRequests ==
    {Query("get_account_cards", user, account_id, 0, 0, {}, {}) :
        user \in UserIds, account_id \in AccountIdInputs}

GetAccountStatementRequests(dates) ==
    {Query("get_account_statement", user, account_id, 0, 0, start_date, end_date) :
        user \in UserIds, account_id \in AccountIdInputs,
        start_date \in dates, end_date \in dates}

CreateCard ==
    /\ pending.op = "create_card"
    /\ create_card_result(pending.user, pending.account_id).code = HTTP_OK
         => Len(cards) < MaxCards
    /\ create_card(pending.user, pending.account_id, pending.card_type,
                   pending.credit_limit)
    /\ UNCHANGED <<users, now, sessions>>

GetUserAccounts ==
    /\ pending.op = "get_user_accounts"
    /\ get_user_accounts(pending.user)
    /\ UNCHANGED <<users, now, sessions>>

GetAccount ==
    /\ pending.op = "get_account"
    /\ get_account(pending.user, pending.account_id)
    /\ UNCHANGED <<users, now, sessions>>

GetAccountTransactions ==
    /\ pending.op = "get_account_transactions"
    /\ get_account_transactions(pending.user, pending.account_id, pending.skip,
                                pending.limit)
    /\ UNCHANGED <<users, now, sessions>>

GetAccountCards ==
    /\ pending.op = "get_account_cards"
    /\ get_account_cards(pending.user, pending.account_id)
    /\ UNCHANGED <<users, now, sessions>>

GetAccountStatement ==
    /\ pending.op = "get_account_statement"
    /\ get_account_statement(pending.user, pending.account_id, pending.start_date,
                             pending.end_date)
    /\ UNCHANGED <<users, now, sessions>>

Next ==
    \/ Submit(CreateAccountRequests \cup CreateTransactionRequests
                \cup CreateTransferRequests)
    \/ CreateAccount
    \/ CreateTransaction
    \/ CreateTransfer

Spec == Init /\ [][Next]_vars

(* ------------------- the ledger over three accounts -------------------- *)
\* The store after three accepted create_account requests: user 1 opened
\* accounts 1 and 3, user 2 opened account 2, each with an initial balance
\* of its own.
InitLedger ==
    \E b1 \in InitialBalanceInputs, b2 \in InitialBalanceInputs,
       b3 \in InitialBalanceInputs :
        /\ users = RegisteredUsers
        /\ accounts = << Account(1, 1, 1, "CHECKING", OrZero(b1)),
                         Account(2, 2, 2, "CHECKING", OrZero(b2)),
                         Account(3, 1, 3, "CHECKING", OrZero(b3)) >>
        /\ transactions = <<>>
        /\ transfers = <<>>
        /\ cards = <<>>
        /\ now = 0
        /\ sessions = <<>>
        /\ pending = NoRequest
        /\ last = Response("create_account", HTTP_OK, {}, {accounts[3]})

NextLedger ==
    \/ Submit(CreateTransactionRequests \cup CreateTransferRequests)
    \/ CreateTransaction
    \/ CreateTransfer

SpecLedger == InitLedger /\ [][NextLedger]_vars

(* ------------------- opening and reading accounts ---------------------- *)
\* create_account requests of every account type.
OpenAccountRequests ==
    {Request("create_account", user, 0, 0, "", 0, initial_balance, account_type, "") :
        user \in UserIds, initial_balance \in InitialBalanceInputs,
        account_type \in AccountType}

NextAccounts ==
    \/ Submit(OpenAccountRequests \cup GetUserAccountsRequests \cup GetAccountRequests)
    \/ CreateAccount
    \/ GetUserAccounts
    \/ GetAccount

SpecAccounts == Init /\ [][NextAccounts]_vars

(* ----------------- the endpoints under /accounts/{id} ------------------ *)
\* The store after each user has opened one account: account 1 is owned by
\* user 1, account 2 by user 2, and no account has id 3.
OpeningBalance == <<MaxAmount, 0>>

InitAccess ==
    /\ users = RegisteredUsers
    /\ accounts = << Account(1, 1, 1, "CHECKING", OpeningBalance[1]),
                     Account(2, 2, 2, "SAVINGS", OpeningBalance[2]) >>
    /\ transactions = <<>>
    /\ transfers = <<>>
    /\ cards = <<>>
    /\ now = 0
    /\ sessions = <<>>
    /\ pending = NoRequest
    /\ last = Response("create_account", HTTP_OK, {}, {accounts[2]})

NextAccess ==
    \/ Submit(CreateTransactionRequests \cup CreateCardRequests
                \cup GetAccountRequests \cup GetAccountTransactionsRequests
                \cup GetAccountCardsRequests \cup GetAccountStatementRequests({{}}))
    \/ CreateTransaction
    \/ CreateCard
    \/ GetAccount
    \/ GetAccountTransactions
    \/ GetAccountCards
    \/ GetAccountStatement

SpecAccess == InitAccess /\ [][NextAccess]_vars

(* ------------------------ the banking workflow ------------------------ *)
\* The amounts of TestIntegration.test_full_banking_workflow.
checking_initial_balance == 1000
savings_initial_balance == 500
deposit_amount == 250
transfer_amount == 300

\* The requests of the workflow: open a checking and a savings account, make
\* a deposit, transfer between the accounts, read an account.  A client
\* sends them in any order, on any of the accounts.
WorkflowRequests ==
    {Request("create_account", user, 0, 0, "", 0, {checking_initial_balance},
             "CHECKING", "") : user \in UserIds}
    \cup {Request("create_account", user, 0, 0, "", 0, {savings_initial_balance},
                  "SAVINGS", "") : user \in UserIds}
    \cup {Request("create_transaction", user, account_id, 0, TransactionType_CREDIT,
                  deposit_amount, {}, "", description) :
            user \in UserIds, account_id \in 1..MaxAccounts,
            description \in DescriptionInputs}
    \cup {Request("create_transfer", user, from_account_id, to_account_id, "",
                  transfer_amount, {}, "", description) :
            user \in UserIds, from_account_id \in 1..MaxAccounts,
            to_account_id \in 1..MaxAccounts, description \in DescriptionInputs}
    \cup {request \in GetAccountRequests : request.account_id \in 1..MaxAccounts}

\* The endpoints of the workflow, with room for the three Transaction rows
\* it writes.
WorkflowCreateTransaction ==
    /\ pending.op = "create_transaction"
    /\ Len(transactions) < MaxWorkflowTransactions
    /\ create_transaction(pending.user, pending.account_id, pending.transaction_type,
                          pending.amount, pending.description)
    /\ UNCHANGED <<users, now, sessions>>

WorkflowCreateTransfer ==
    /\ pending.op = "create_transfer"
    /\ Len(transfers) < MaxTransfers
    /\ Len(transactions) + 2 <= MaxWorkflowTransactions
    /\ create_transfer(pending.user, pending.account_id, pending.to_account_id,
                       pending.amount, pending.description)
    /\ UNCHANGED <<users, now, sessions>>

NextWorkflow ==
    \/ Submit(WorkflowRequests)
    \/ CreateAccount
    \/ WorkflowCreateTransaction
    \/ WorkflowCreateTransfer
    \/ GetAccount

SpecWorkflow == Init /\ [][NextWorkflow]_vars

(* ------------------------- account statements ------------------------- *)
\* The values of a date parameter: absent, empty, no date, and the ISO text
\* of every time of the clock.
DateInputs == {{}, {EmptyString}, {NotADate}} \cup {{isoformat(t)} : t \in 0..MaxClock}

\* Well-formed transactions on the two accounts.
StatementTransactionRequests ==
    {request \in CreateTransactionRequests :
        request.amount = MaxAmount /\ request.account_id \in 1..MaxAccounts}

\* The clock of the database, which stamps the rows, moves on.
Tick ==
    /\ now < MaxClock
    /\ now' = now + 1
    /\ UNCHANGED <<users, accounts, transactions, transfers, cards, sessions, pending, last>>

NextStatement ==
    \/ Submit(StatementTransactionRequests \cup GetAccountStatementRequests(DateInputs))
    \/ CreateTransaction
    \/ GetAccountStatement
    \/ Tick

SpecStatement == InitAccess /\ [][NextStatement]_vars

(* ------------------------- concurrent requests ------------------------- *)
\* The server runs each request on a worker thread with a database session
\* of its own (get_database).  A session reads an account row when the
\* handler queries it, keeps the row in its identity map, changes the
\* balance there, and writes it back when the handler commits.  The
\* database takes no lock for the reads, so the steps of different sessions
\* interleave; a commit is atomic.
\*
\* A session: the request it serves, where its handler is, the balances as
\* it read them, the balances it will write, and its response.
Session(request, pc, read, staged, code, detail) ==
    [request |-> request, pc |-> pc, read |-> read, staged |-> staged,
     code |-> code, detail |-> detail]

SessionIds == 1..Len(sessions)

\* Well-formed and ill-addressed requests on the two accounts.
ConcurrentRequests ==
    {request \in CreateTransactionRequests \cup CreateTransferRequests :
        /\ request.amount > 0
        /\ request.account_id \in 1..MaxAccounts
        /\ request.to_account_id \in 0..MaxAccounts}

Respond(s, code, detail) ==
    sessions' = [sessions EXCEPT ![s].pc = "done", ![s].code = code, ![s].detail = detail]

\* A worker thread takes a request and opens its session.
Receive ==
    /\ Len(sessions) < MaxSessions
    /\ \E request \in ConcurrentRequests :
         sessions' = Append(sessions, Session(request, "received", <<>>, <<>>, 0, {}))
    /\ UNCHANGED <<users, accounts, transactions, transfers, cards, now, pending, last>>

\* create_transaction up to the construction of the Transaction: the query
\* of the account, the funds check and the new balance, set on the row the
\* session holds.
LoadAccount(s) ==
    LET request == sessions[s].request
        result == create_transaction_result(request.user, request.account_id,
                                            request.transaction_type, request.amount)
        balance == accounts[request.account_id].balance
    IN  /\ sessions[s].pc = "received"
        /\ request.op = "create_transaction"
        /\ IF result.code = HTTP_OK
           THEN sessions' = [sessions EXCEPT
                    ![s].pc = "staged",
                    ![s].read = request.account_id :> balance,
                    ![s].staged = request.account_id :>
                        transaction_new_balance(request.transaction_type, balance,
                                                request.amount)]
           ELSE Respond(s, result.code, result.detail)
        /\ UNCHANGED <<users, accounts, transactions, transfers, cards, now, pending, last>>

\* create_transfer up to the query of the source account.
LoadSource(s) ==
    LET request == sessions[s].request
        errors == TransferCreate_errors(request.account_id, request.to_account_id,
                                        request.amount)
    IN  /\ sessions[s].pc = "received"
        /\ request.op = "create_transfer"
        /\ IF errors # {}
           THEN Respond(s, HTTP_UNPROCESSABLE, errors)
           ELSE IF OwnedAccount(request.account_id, request.user) = {}
           THEN Respond(s, HTTP_NOT_FOUND, {"Source account not found"})
           ELSE sessions' = [sessions EXCEPT
                    ![s].pc = "source_loaded",
                    ![s].read = request.account_id :> accounts[request.account_id].balance]
        /\ UNCHANGED <<users, accounts, transactions, transfers, cards, now, pending, last>>

\* LoadDestination on rows that are locked by the query that reads them:
\* the query of the destination waits while another session holds the row.
LoadDestination_waits(s) ==
    LET request == sessions[s].request
        S == request.account_id
        D == request.to_account_id
    IN  /\ sessions[s].pc = "source_loaded"
        /\ \A other \in SessionIds \ {s} :
              ~(/\ sessions[other].pc \in {"source_loaded", "staged"}
                /\ sessions[other].request.account_id = D)
        /\ IF AnyAccount(D) = {}
           THEN Respond(s, HTTP_NOT_FOUND, {"Destination account not found"})
           ELSE IF transfer_insufficient_funds(sessions[s].read[S], request.amount)
           THEN Respond(s, HTTP_BAD_REQUEST, {"Insufficient funds"})
           ELSE sessions' = [sessions EXCEPT
                    ![s].pc = "staged",
                    ![s].read = @ @@ (D :> accounts[D].balance),
                    ![s].staged = (S :> sessions[s].read[S] - request.amount)
                                    @@ (D :> accounts[D].balance + request.amount)]
        /\ UNCHANGED <<users, accounts, transactions, transfers, cards, now, pending, last>>

\* create_transfer from the query of the destination account to the
\* construction of the records: the funds check on the source row the
\* session holds and the new balances of both rows.
LoadDestination(s) ==
    LET request == sessions[s].request
        S == request.account_id
        D == request.to_account_id
    IN  /\ sessions[s].pc = "source_loaded"
        /\ IF AnyAccount(D) = {}
           THEN Respond(s, HTTP_NOT_FOUND, {"Destination account not found"})
           ELSE IF transfer_insufficient_funds(sessions[s].read[S], request.amount)
           THEN Respond(s, HTTP_BAD_REQUEST, {"Insufficient funds"})
           ELSE sessions' = [sessions EXCEPT
                    ![s].pc = "staged",
                    ![s].read = @ @@ (D :> accounts[D].balance),
                    ![s].staged = (S :> sessions[s].read[S] - request.amount)
                                    @@ (D :> accounts[D].balance + request.amount)]
        /\ UNCHANGED <<users, accounts, transactions, transfers, cards, now, pending, last>>

\* The UPDATE of a flush: every row the session changed gets the balance the
\* session holds for it.
written_balances(staged) ==
    [i \in AccountIds |->
        IF i \in DOMAIN staged THEN [accounts[i] EXCEPT !.balance = staged[i]]
        ELSE accounts[i]]

\* db.commit() of create_transaction.
CommitTransaction(s) ==
    LET request == sessions[s].request
    IN  /\ sessions[s].pc = "staged"
        /\ request.op = "create_transaction"
        /\ \E reference_number \in Generated(TransactionReferences) :
             IF reference_number \in TransactionReferences
             THEN /\ UNCHANGED <<accounts, transactions>>
                  /\ Respond(s, HTTP_SERVER_ERROR, {"IntegrityError"})
             ELSE /\ accounts' = written_balances(sessions[s].staged)
                  /\ transactions' = Append(transactions,
                        Transaction(Len(transactions) + 1, request.account_id,
                                    request.transaction_type, request.amount,
                                    <<request.description>>, reference_number))
                  /\ Respond(s, HTTP_OK, {})
        /\ UNCHANGED <<users, transfers, cards, now, pending, last>>

\* CommitTransfer that makes the balances visible without the records.
CommitTransfer_without_records(s) ==
    LET request == sessions[s].request
    IN  /\ sessions[s].pc = "staged"
        /\ request.op = "create_transfer"
        /\ accounts' = written_balances(sessions[s].staged)
        /\ Respond(s, HTTP_OK, {})
        /\ UNCHANGED <<users, transactions, transfers, cards, now, pending, last>>

\* db.commit() of create_transfer.
CommitTransfer(s) ==
    LET request == sessions[s].request
        S == request.account_id
        D == request.to_account_id
    IN  /\ sessions[s].pc = "staged"
        /\ request.op = "create_transfer"
        /\ \E transfer_reference \in Generated(TransferReferences),
              debit_reference \in Generated(TransactionReferences) :
             \E credit_reference \in Generated(TransactionReferences \cup {debit_reference}) :
               IF \/ transfer_reference \in TransferReferences
                  \/ debit_reference \in TransactionReferences
                  \/ credit_reference \in TransactionReferences \cup {debit_reference}
               THEN /\ UNCHANGED <<accounts, transactions, transfers>>
                    /\ Respond(s, HTTP_SERVER_ERROR, {"IntegrityError"})
               ELSE /\ accounts' = written_balances(sessions[s].staged)
                    /\ transfers' = Append(transfers,
                          Transfer(Len(transfers) + 1, S, D, request.amount,
                                   request.description, transfer_reference))
                    /\ transactions' = transactions \o
                          transfer_transactions(S, D, request.amount, request.description,
                                                debit_reference, credit_reference)
                    /\ Respond(s, HTTP_OK, {})
        /\ UNCHANGED <<users, cards, now, pending, last>>

NextConcurrent ==
    \/ Receive
    \/ \E s \in SessionIds : LoadAccount(s)
    \/ \E s \in SessionIds : LoadSource(s)
    \/ \E s \in SessionIds : LoadDestination(s)
    \/ \E s \in SessionIds : CommitTransaction(s)
    \/ \E s \in SessionIds : CommitTransfer(s)

SpecConcurrent == InitAccess /\ [][NextConcurrent]_vars

\* A step of the worker thread of session s.
SessionStep(s) ==
    /\ s \in SessionIds
    /\ \/ LoadAccount(s)
       \/ LoadSource(s)
       \/ LoadDestination(s)
       \/ CommitTransaction(s)
       \/ CommitTransfer(s)

\* Every worker thread keeps running: a handler that can take its next step
\* takes it.
SpecConcurrentFair ==
    /\ InitAccess
    /\ [][NextConcurrent]_vars
    /\ \A s \in 1..MaxSessions : WF_vars(SessionStep(s))

(* ------------------------- listing transfers --------------------------- *)
MaxListedTransfers == 2

GetUserTransfersRequests ==
    {Query("get_user_transfers", user, 0, 0, 0, {}, {}) : user \in UserIds}

\* Well-formed transfers between existing accounts.
ListedTransferRequests ==
    {request \in CreateTransferRequests :
        /\ request.amount > 0
        /\ request.account_id \in AccountIds
        /\ request.to_account_id \in AccountIds}

\* create_transfer with room for the transfers to list.
ListedCreateTransfer ==
    /\ pending.op = "create_transfer"
    /\ create_transfer_result(pending.user, pending.account_id, pending.to_account_id,
                              pending.amount).code = HTTP_OK
         => Len(transfers) < MaxListedTransfers
    /\ create_transfer(pending.user, pending.account_id, pending.to_account_id,
                       pending.amount, pending.description)
    /\ UNCHANGED <<users, now, sessions>>

GetUserTransfers ==
    /\ pending.op = "get_user_transfers"
    /\ get_user_transfers(pending.user)
    /\ UNCHANGED <<users, now, sessions>>

NextTransfers ==
    \/ Submit(ListedTransferRequests \cup GetUserTransfersRequests)
    \/ ListedCreateTransfer
    \/ GetUserTransfers

SpecTransfers == InitLedger /\ [][NextTransfers]_vars

(* ------------------------ pages of transactions ----------------------- *)
\* The values of skip and of limit: none, some and all of the rows of a full
\* table, and the default limit of the endpoint.
SkipInputs == 0..MaxTransactions
LimitInputs == (0..MaxTransactions) \cup {100}

PagedTransactionsRequests ==
    {Query("get_account_transactions", user, account_id, skip, limit, {}, {}) :
        user \in UserIds, account_id \in AccountIdInputs,
        skip \in SkipInputs, limit \in LimitInputs}

NextPages ==
    \/ Submit(StatementTransactionRequests \cup PagedTransactionsRequests)
    \/ CreateTransaction
    \/ GetAccountTransactions

SpecPages == InitAccess /\ [][NextPages]_vars

(* --------------------------- issuing cards ----------------------------- *)
MaxIssuedCards == 2

\* create_card with room for the cards to issue.
IssueCard ==
    /\ pending.op = "create_card"
    /\ create_card_result(pending.user, pending.account_id).code = HTTP_OK
         => Len(cards) < MaxIssuedCards
    /\ create_card(pending.user, pending.account_id, pending.card_type,
                   pending.credit_limit)
    /\ UNCHANGED <<users, now, sessions>>

\* Cards are issued while the accounts are credited, debited and transferred
\* from.
NextCards ==
    \/ Submit(CreateCardRequests \cup GetAccountCardsRequests
                \cup StatementTransactionRequests \cup ListedTransferRequests)
    \/ IssueCard
    \/ GetAccountCards
    \/ CreateTransaction
    \/ CreateTransfer

SpecCards == InitAccess /\ [][NextCards]_vars

(* ------------------------ generated identifiers ------------------------ *)
\* One well-formed request of every endpoint that stores a generated
\* identifier, by one user on any account.
IdentifierRequests ==
    {request \in CreateAccountRequests :
        request.user = 1 /\ request.initial_balance = {MaxAmount}}
    \cup {request \in CreateTransactionRequests :
            /\ request.user = 1
            /\ request.amount = 1
            /\ request.transaction_type = TransactionType_CREDIT}
    \cup {request \in CreateTransferRequests : request.user = 1 /\ request.amount = 1}
    \cup {request \in CreateCardRequests :
            request.user = 1 /\ request.card_type = "DEBIT" /\ request.credit_limit = {}}

NextIdentifiers ==
    \/ Submit(IdentifierRequests)
    \/ CreateAccount
    \/ CreateTransaction
    \/ ListedCreateTransfer
    \/ IssueCard

SpecIdentifiers == Init /\ [][NextIdentifiers]_vars

(* ------------------------------ signing up ----------------------------- *)
MaxEmails == 3
MaxSignups == 3

\* Addresses of MaxEmails mailboxes with the domain in either case, and a
\* text that is no address.
EmailInputs ==
    {<<mailbox, domain>> : mailbox \in 1..MaxEmails, domain \in Domains} \cup {NotAnEmail}
PasswordInputs == {"123", "testpassword123"}

SignupRequests ==
    {SignupRequest(email, password, "Test User", {"+1234567890"}) :
        email \in EmailInputs, password \in PasswordInputs}

\* The database before any user has signed up.
InitSignup ==
    /\ users = <<>>
    /\ accounts = <<>>
    /\ transactions = <<>>
    /\ transfers = <<>>
    /\ cards = <<>>
    /\ now = 0
    /\ sessions = <<>>
    /\ pending = NoRequest
    /\ last = NoResponse

Signup ==
    /\ pending.op = "signup"
    /\ signup_result(pending.email, pending.password).code = HTTP_OK
         => Len(users) < MaxSignups
    /\ signup(pending.email, pending.password, pending.full_name, pending.phone_number)
    /\ UNCHANGED <<now, sessions>>

NextSignup ==
    \/ Submit(SignupRequests)
    \/ Signup

SpecSignup == InitSignup /\ [][NextSignup]_vars

(* --------------------------- stored records ---------------------------- *)
\* Every endpoint that writes, while the clock of the database moves on.
NextRecords ==
    \/ Submit(IdentifierRequests)
    \/ CreateAccount
    \/ CreateTransaction
    \/ ListedCreateTransfer
    \/ IssueCard
    \/ Tick

SpecRecords == Init /\ [][NextRecords]_vars

(* ------------------------------ the reads ------------------------------ *)
\* Well-formed requests that fill the tables.
ReadWriteRequests ==
    StatementTransactionRequests \cup ListedTransferRequests
    \cup {request \in CreateCardRequests :
            request.card_type = "DEBIT" /\ request.credit_limit = {}}

\* Every GET request, on accounts of the caller, on accounts of others and
\* on no account, with dates and with texts that are no dates.
ReadRequests ==
    GetUserAccountsRequests \cup GetAccountRequests \cup GetAccountTransactionsRequests
    \cup GetUserTransfersRequests \cup GetAccountCardsRequests
    \cup GetAccountStatementRequests({{}, {NotADate}, {isoformat(0)}})

NextReads ==
    \/ Submit(ReadWriteRequests \cup ReadRequests)
    \/ CreateTransaction
    \/ CreateTransfer
    \/ CreateCard
    \/ GetUserAccounts
    \/ GetAccount
    \/ GetAccountTransactions
    \/ GetUserTransfers
    \/ GetAccountCards
    \/ GetAccountStatement

SpecReads == InitAccess /\ [][NextReads]_vars

(* --------------------------- card numbers ------------------------------ *)
MaxNumberedCards == 2

\* create_card with the number the handler builds, with room for the cards.
CreateNumberedCard ==
    /\ pending.op = "create_card"
    /\ create_card_result(pending.user, pending.account_id).code = HTTP_OK
         => Len(cards) < MaxNumberedCards
    /\ create_card_numbered(pending.user, pending.account_id, pending.card_type,
                            pending.credit_limit)
    /\ UNCHANGED <<users, now, sessions>>

\* Requests for cards of either type that leave the credit limit out.
NumberedCardRequests ==
    {request \in CreateCardRequests : request.credit_limit = {}}

NextCardNumbers ==
    \/ Submit(NumberedCardRequests \cup GetAccountCardsRequests)
    \/ CreateNumberedCard
    \/ GetAccountCards

SpecCardNumbers == InitAccess /\ [][NextCardNumbers]_vars

(* ------------------------------- claims -------------------------------- *)
\* The tables of the database.
db == <<accounts, transactions, transfers, cards>>

\* The step in which the endpoint op answers the request in flight.
Answers(op) == pending.op = op /\ last'.op = op

\* The entity a successful response returns.
Body == CHOOSE entity \in last.body : TRUE

\* C1: in every reachable state every account's balance is >= 0.
C1_BalanceNonNegative ==
    \A i \in AccountIds : accounts[i].balance >= 0

\* C2: a successful CreateTransaction of type CREDIT with amount a on an
\* account with balance b leaves the balance equal to b + a.
C2_CreditAdds ==
    [][( /\ Answers("create_transaction")
         /\ pending.transaction_type = TransactionType_CREDIT
         /\ last'.code = HTTP_OK )
       => accounts'[pending.account_id].balance
            = accounts[pending.account_id].balance + pending.amount]_vars

\* C3: a successful CreateTransaction of type DEBIT with amount a on an
\* account with balance b >= a leaves the balance equal to b - a.
C3_DebitSubtracts ==
    [][( /\ Answers("create_transaction")
         /\ pending.transaction_type = TransactionType_DEBIT
         /\ last'.code = HTTP_OK
         /\ accounts[pending.account_id].balance >= pending.amount )
       => accounts'[pending.account_id].balance
            = accounts[pending.account_id].balance - pending.amount]_vars

\* A DEBIT of part of the balance has been applied: the balance left is positive.
C3_Witness ==
    /\ last.op = "create_transaction"
    /\ last.code = HTTP_OK
    /\ Body.transaction_type = TransactionType_DEBIT
    /\ accounts[Body.account_id].balance > 0

\* C4: CreateTransaction of type DEBIT with amount greater than the balance of
\* the caller's account fails with InsufficientFunds, leaves the balance
\* unchanged and creates no Transaction.
C4_OverdraftRejected ==
    [][( /\ Answers("create_transaction")
         /\ pending.transaction_type = TransactionType_DEBIT
         /\ validate_amount(pending.amount)
         /\ OwnedAccount(pending.account_id, pending.user) # {}
         /\ accounts[pending.account_id].balance < pending.amount )
       => /\ last'.code = HTTP_BAD_REQUEST
          /\ last'.detail = {"Insufficient funds"}
          /\ UNCHANGED db]_vars

\* C5: a successful CreateTransfer of amount a from S to D sets S.balance to
\* its previous value minus a and D.balance to its previous value plus a,
\* changes no other account, and adds exactly one Transfer (S, D, a), one
\* DEBIT Transaction of amount a on S and one CREDIT Transaction of amount a
\* on D.
C5_TransferEffect ==
    [][(Answers("create_transfer") /\ last'.code = HTTP_OK)
       => LET S == pending.account_id
              D == pending.to_account_id
              a == pending.amount
          IN  /\ Len(accounts') = Len(accounts)
              /\ accounts'[S].balance = accounts[S].balance - a
              /\ accounts'[D].balance = accounts[D].balance + a
              /\ \A i \in AccountIds \ {S, D} : accounts'[i] = accounts[i]
              /\ Len(transfers') = Len(transfers) + 1
              /\ SubSeq(transfers', 1, Len(transfers)) = transfers
              /\ LET t == transfers'[Len(transfers')]
                 IN  <<t.from_account_id, t.to_account_id, t.amount>> = <<S, D, a>>
              /\ Len(transactions') = Len(transactions) + 2
              /\ SubSeq(transactions', 1, Len(transactions)) = transactions
              /\ LET new == {transactions'[Len(transactions) + 1],
                             transactions'[Len(transactions) + 2]}
                 IN  /\ \E x \in new :
                          <<x.account_id, x.transaction_type, x.amount>>
                            = <<S, TransactionType_DEBIT, a>>
                     /\ \E x \in new :
                          <<x.account_id, x.transaction_type, x.amount>>
                            = <<D, TransactionType_CREDIT, a>>]_vars

\* A transfer between two of three accounts has been applied.
C5_Witness ==
    /\ last.op = "create_transfer"
    /\ last.code = HTTP_OK
    /\ Len(accounts) = 3
    /\ Len(transfers) = 1
    /\ Len(transactions) = 2

\* C6: CreateTransfer fails with InsufficientFunds exactly when the handler
\* found both accounts and the source balance is strictly less than the
\* amount; a transfer of exactly the whole source balance passes every check
\* of the handler and, once committed, leaves the source at 0.
C6_TransferInsufficientFunds ==
    [][Answers("create_transfer")
       => LET S == pending.account_id
              a == pending.amount
              result == create_transfer_result(pending.user, S, pending.to_account_id, a)
              found == result.source_found /\ result.dest_found
          IN  /\ (last'.code = HTTP_BAD_REQUEST /\ last'.detail = {"Insufficient funds"})
                   <=> (found /\ accounts[S].balance < a)
              /\ (found /\ accounts[S].balance = a)
                   => /\ result.code = HTTP_OK
                      /\ last'.code \in {HTTP_OK, HTTP_SERVER_ERROR}
                      /\ last'.code = HTTP_OK => accounts'[S].balance = 0]_vars

\* A transfer of the whole source balance has been applied and a later
\* transfer out of the same account was refused for insufficient funds.
C6_Witness ==
    /\ last.op = "create_transfer"
    /\ last.code = HTTP_BAD_REQUEST
    /\ Len(transfers) = 1
    /\ accounts[transfers[1].from_account_id].balance = 0

\* C7: a CreateTransfer that fails is a no-op: every account balance and the
\* Transfer and Transaction records are as before the call.
C7_FailedTransferNoOp ==
    [][(Answers("create_transfer") /\ last'.code # HTTP_OK) => UNCHANGED db]_vars

\* A transfer was refused for its destination after records were written.
C7_Witness ==
    /\ last.op = "create_transfer"
    /\ last.detail = {"Destination account not found"}
    /\ Len(transactions) > 0

\* C8: CreateTransfer with from account equal to to account fails with
\* SameAccount, whatever the amount and the balance, and changes no balance
\* and no record.
C8_SameAccountRejected ==
    [][(Answers("create_transfer") /\ pending.account_id = pending.to_account_id)
       => /\ last'.code = HTTP_UNPROCESSABLE
          /\ "Cannot transfer to the same account" \in last'.detail
          /\ UNCHANGED db]_vars

\* A transfer from an existing account to itself has been refused.
C8_Witness ==
    /\ last.op = "create_transfer"
    /\ "Cannot transfer to the same account" \in last.detail
    /\ Len(accounts) > 0

\* C9: CreateTransaction and CreateTransfer with amount <= 0 fail with
\* InvalidAmount before any account is read and change no balance and no
\* record; every stored Transaction and Transfer has amount > 0.
C9_InvalidAmountRejected ==
    [][/\ (Answers("create_transaction") /\ pending.amount <= 0)
          => /\ last'.code = HTTP_UNPROCESSABLE
             /\ "Amount must be positive" \in last'.detail
             /\ create_transaction_result(pending.user, pending.account_id,
                    pending.transaction_type, pending.amount).reads = {}
             /\ UNCHANGED db
       /\ (Answers("create_transfer") /\ pending.amount <= 0)
          => /\ last'.code = HTTP_UNPROCESSABLE
             /\ "Amount must be positive" \in last'.detail
             /\ create_transfer_result(pending.user, pending.account_id,
                    pending.to_account_id, pending.amount).reads = {}
             /\ UNCHANGED db
       /\ \A i \in 1..Len(transactions') : transactions'[i].amount > 0
       /\ \A i \in 1..Len(transfers') : transfers'[i].amount > 0]_vars

\* A request with a non-positive amount has been refused while records are stored.
C9_Witness ==
    /\ last.code = HTTP_UNPROCESSABLE
    /\ "Amount must be positive" \in last.detail
    /\ Len(transactions) > 0
    /\ Len(transfers) > 0

\* C10: CreateAccount with initialBalance < 0 fails with InvalidAmount and
\* persists no account; every account's balance at creation is >= 0.
C10_NegativeInitialBalanceRejected ==
    [][Answers("create_account")
       => /\ (\E v \in pending.initial_balance : v < 0)
               => (last'.code = HTTP_UNPROCESSABLE /\ UNCHANGED db)
          /\ last'.code = HTTP_OK => accounts'[Len(accounts')].balance >= 0]_vars

\* An account with the id exists and the user is its owner.
Owns(user, account_id) ==
    \E i \in AccountIds : i = account_id /\ accounts[i].user_id = user

\* The endpoints under /accounts/{account_id}.
AccountEndpoints ==
    {"get_account", "create_transaction", "get_account_transactions", "create_card",
     "get_account_cards", "get_account_statement"}

\* C11: on GetAccount, CreateTransaction, ListTransactions, CreateCard,
\* ListCards and GetStatement a request that names an account the caller does
\* not own is answered by the one response 404 "Account not found", whether
\* the account exists or not, and changes no table; a CreateTransaction whose
\* body is invalid is refused by the validation, again with one response for
\* both cases.
C11_OwnershipVisibility ==
    [][\A op \in AccountEndpoints :
          (Answers(op) /\ ~Owns(pending.user, pending.account_id))
          => /\ UNCHANGED db
             /\ IF op = "create_transaction" /\ pending.amount <= 0
                THEN last' = Response(op, HTTP_UNPROCESSABLE, {"Amount must be positive"}, {})
                ELSE last' = Response(op, HTTP_NOT_FOUND, {"Account not found"}, {})]_vars

\* A user asks for the cards of the other user's account, which has one.
C11_Witness ==
    /\ pending.op = "get_account_cards"
    /\ pending.account_id \in AccountIds
    /\ ~Owns(pending.user, pending.account_id)
    /\ \E i \in 1..Len(cards) : cards[i].account_id = pending.account_id

\* C12: CreateTransfer answers a well-formed request whose source account the
\* caller does not own with 404 "Source account not found" and changes no
\* table; a well-formed transfer from an account of the caller with enough
\* funds to an existing account of another user is not refused (it is accepted
\* unless a generated reference number is rejected by its unique constraint),
\* and once accepted it credits that account with the amount.
C12_TransferOwnership ==
    [][( /\ Answers("create_transfer")
         /\ pending.amount > 0
         /\ pending.account_id # pending.to_account_id )
       => LET S == pending.account_id
              D == pending.to_account_id
          IN  /\ ~Owns(pending.user, S)
                   => /\ last' = Response("create_transfer", HTTP_NOT_FOUND,
                                          {"Source account not found"}, {})
                      /\ UNCHANGED db
              /\ ( /\ Owns(pending.user, S)
                   /\ D \in AccountIds
                   /\ ~Owns(pending.user, D)
                   /\ accounts[S].balance >= pending.amount )
                   => /\ last'.code \in {HTTP_OK, HTTP_SERVER_ERROR}
                      /\ last'.code = HTTP_OK
                           => accounts'[D].balance = accounts[D].balance + pending.amount]_vars

\* A transfer into an account of another user has been applied.
C12_Witness ==
    /\ last.op = "create_transfer"
    /\ last.code = HTTP_OK
    /\ accounts[Body.from_account_id].user_id # accounts[Body.to_account_id].user_id
    /\ accounts[Body.to_account_id].balance > 0

\* Every session has answered its request.
AllDone == \A s \in SessionIds : sessions[s].pc = "done"

\* The sessions whose request was accepted.
Succeeded == {s \in SessionIds : sessions[s].code = HTTP_OK}

\* C13: when N concurrent CreateTransaction(DEBIT, a) requests of the owner
\* against one account opened with balance B, N * a > B, have all been
\* answered, the balance of the account is >= 0 and exactly B \div a of them
\* were accepted, whatever the interleaving of their steps.
C13_ConcurrentDebits ==
    \A A \in AccountIds, a \in 1..MaxAmount :
        ( /\ Len(sessions) = MaxSessions
          /\ AllDone
          /\ \A s \in SessionIds :
                /\ sessions[s].request.op = "create_transaction"
                /\ sessions[s].request.transaction_type = TransactionType_DEBIT
                /\ sessions[s].request.account_id = A
                /\ sessions[s].request.amount = a
                /\ Owns(sessions[s].request.user, A)
          /\ MaxSessions * a > OpeningBalance[A] )
        => /\ accounts[A].balance >= 0
           /\ Cardinality(Succeeded) = OpeningBalance[A] \div a

\* The change session s made to the balance of account i on the row it held.
Change(s, i) ==
    IF i \in DOMAIN sessions[s].staged
    THEN sessions[s].staged[i] - sessions[s].read[i] ELSE 0

RECURSIVE Changes(_, _)
\* The sum of the changes the accepted sessions 1..n made to account i.
Changes(n, i) ==
    IF n = 0 THEN 0
    ELSE Changes(n - 1, i) + (IF n \in Succeeded THEN Change(n, i) ELSE 0)

\* C14: when the concurrent mutations have all been answered, the balance of
\* every account is its opening balance plus the change of every accepted
\* mutation, as after running the accepted mutations one after the other.
C14_NoLostUpdate ==
    AllDone
    => \A i \in AccountIds :
          accounts[i].balance = OpeningBalance[i] + Changes(Len(sessions), i)

\* The date parameter is the ISO text of a time.
IsDate(optional_string) == \E t \in 0..MaxClock : optional_string = {isoformat(t)}

\* The time a date parameter names.
DateOf(optional_string) == CHOOSE t \in 0..MaxClock : optional_string = {isoformat(t)}

\* The transactions GetStatement is to return for the request in flight.
StatementOf(request) ==
    {i \in 1..Len(transactions) :
        /\ transactions[i].account_id = request.account_id
        /\ IsDate(request.start_date) => transactions[i].timestamp >= DateOf(request.start_date)
        /\ IsDate(request.end_date) => transactions[i].timestamp <= DateOf(request.end_date)}

\* C15: GetStatement by the owner with each of start and end absent or a date
\* is answered 200 with every Transaction of the account whose timestamp is
\* >= start (when given) and <= end (when given), each once, nothing else,
\* and no row before a row with a later timestamp.
C15_StatementContent ==
    [][( /\ Answers("get_account_statement")
         /\ Owns(pending.user, pending.account_id)
         /\ pending.start_date = {} \/ IsDate(pending.start_date)
         /\ pending.end_date = {} \/ IsDate(pending.end_date) )
       => /\ last'.code = HTTP_OK
          /\ Len(last'.body) = Cardinality(StatementOf(pending))
          /\ \A i \in StatementOf(pending) :
                \E k \in 1..Len(last'.body) : last'.body[k] = transactions[i]
          /\ \A j, k \in 1..Len(last'.body) :
                j < k => last'.body[j].timestamp >= last'.body[k].timestamp
          /\ UNCHANGED db]_vars

\* A statement over a range of dates lists one of the two transactions of
\* the account: the other one is outside the range.
C15_Witness ==
    /\ last.op = "get_account_statement"
    /\ last.code = HTTP_OK
    /\ Len(last.body) = 1
    /\ Len(transactions) = 2
    /\ transactions[1].account_id = transactions[2].account_id
    /\ last.body[1].account_id = transactions[1].account_id

C17_TransactionFrame ==
    [][(Answers("create_transaction") /\ last'.code = HTTP_OK)
       => /\ Len(transactions') = Len(transactions) + 1
          /\ SubSeq(transactions', 1, Len(transactions)) = transactions
          /\ LET new == transactions'[Len(transactions')]
             IN  /\ new.account_id = pending.account_id
                 /\ new.transaction_type = pending.transaction_type
                 /\ new.amount = pending.amount
                 /\ new.description = <<pending.description>>
                 /\ last'.body = {new}
          /\ transfers' = transfers
          /\ cards' = cards
          /\ Len(accounts') = Len(accounts)
          /\ \A i \in AccountIds \ {pending.account_id} : accounts'[i] = accounts[i]]_vars

\* The second transaction of the store has been applied while two accounts
\* exist.
C17_Witness ==
    /\ last.op = "create_transaction"
    /\ last.code = HTTP_OK
    /\ Len(accounts) = 2
    /\ Len(transactions) = 2
    /\ Body.id = 2

\* The store holds what the workflow of the integration test has written and
\* nothing else: the checking account, then the savings account of the same
\* user, the deposit on the checking account and after it the transfer from
\* the checking to the savings account.
WorkflowDone ==
    /\ Len(accounts) = 2
    /\ accounts[1].account_type = "CHECKING"
    /\ accounts[2].account_type = "SAVINGS"
    /\ accounts[1].user_id = accounts[2].user_id
    /\ Len(transactions) = 3
    /\ transactions[1].account_id = 1
    /\ transactions[1].transaction_type = TransactionType_CREDIT
    /\ transactions[1].amount = deposit_amount
    /\ Len(transfers) = 1
    /\ transfers[1].from_account_id = 1
    /\ transfers[1].to_account_id = 2
    /\ transfers[1].amount = transfer_amount

C19_AccountRoundTrip ==
    [][/\ (Answers("create_account") /\ last'.code = HTTP_OK)
          => LET account == accounts'[Len(accounts')]
             IN  /\ Len(accounts') = Len(accounts) + 1
                 /\ last'.body = {account}
                 /\ account.id = Len(accounts')
                 /\ account.user_id = pending.user
                 /\ account.account_type = pending.account_type
                 /\ account.balance = IF pending.initial_balance = {} THEN 0
                                      ELSE CHOOSE v \in pending.initial_balance : TRUE
       /\ \A i \in AccountIds : accounts'[i] = accounts[i]
       /\ (Answers("get_account") /\ Owns(pending.user, pending.account_id))
          => /\ last'.code = HTTP_OK
             /\ last'.body = {accounts[pending.account_id]}
             /\ accounts[pending.account_id].id = pending.account_id
       /\ Answers("get_user_accounts")
          => \A i \in AccountIds :
                accounts[i].user_id = pending.user
                => \E k \in 1..Len(last'.body) : last'.body[k] = accounts[i]]_vars

\* The owner has read the second account, a savings account opened with a
\* positive balance.
C19_Witness ==
    /\ last.op = "get_account"
    /\ last.code = HTTP_OK
    /\ Body.id = 2
    /\ Body.account_type = "SAVINGS"
    /\ Body.balance = MaxAmount
    /\ accounts[1].user_id = Body.user_id

\* C20: ListAccounts(user) is answered 200 with the accounts owned by the
\* user: every returned row is a stored account of that owner, every stored
\* account of that owner is returned, none twice, and no table changes.
C20_ListAccounts ==
    [][Answers("get_user_accounts")
       => LET body == last'.body
              owned == {i \in AccountIds : accounts[i].user_id = pending.user}
          IN  /\ last'.code = HTTP_OK
              /\ \A k \in 1..Len(body) :
                    body[k].user_id = pending.user /\ accounts[body[k].id] = body[k]
              /\ \A i \in owned : \E k \in 1..Len(body) : body[k] = accounts[i]
              /\ Len(body) = Cardinality(owned)
              /\ UNCHANGED db]_vars

\* A user who owns one of the two accounts has listed it.
C20_Witness ==
    /\ last.op = "get_user_accounts"
    /\ last.code = HTTP_OK
    /\ Len(accounts) = 2
    /\ Len(last.body) = 1


\* The transfers with an account of the user on one side or the other.
TransfersOf(user) ==
    {i \in 1..Len(transfers) :
        \/ Owns(user, transfers[i].from_account_id)
        \/ Owns(user, transfers[i].to_account_id)}

\* C21: ListTransfers(user) is answered 200 with the Transfer records whose
\* source or destination account the caller owns, transfers received from
\* the accounts of other users included: every such record is returned, each
\* once, no record in which the caller owns neither side is returned, and no
\* table changes.
C21_ListTransfers ==
    [][Answers("get_user_transfers")
       => LET body == last'.body
          IN  /\ last'.code = HTTP_OK
              /\ \A i \in TransfersOf(pending.user) :
                    \E k \in 1..Len(body) : body[k] = transfers[i]
              /\ \A k \in 1..Len(body) :
                    \E i \in TransfersOf(pending.user) : body[k] = transfers[i]
              /\ Len(body) = Cardinality(TransfersOf(pending.user))
              /\ UNCHANGED db]_vars

\* Of the two transfers of the store the one listed went from an account of
\* one user to the account of another, who is the caller: the caller owns
\* neither side of the other transfer.
C21_Witness ==
    /\ last.op = "get_user_transfers"
    /\ last.code = HTTP_OK
    /\ Len(transfers) = 2
    /\ Len(last.body) = 1
    /\ accounts[last.body[1].from_account_id].user_id
         # accounts[last.body[1].to_account_id].user_id
    /\ \E i \in 1..Len(transfers) :
          /\ transfers[i] # last.body[1]
          /\ accounts[transfers[i].from_account_id].user_id
               = accounts[last.body[1].from_account_id].user_id
          /\ accounts[transfers[i].to_account_id].user_id
               = accounts[last.body[1].from_account_id].user_id


\* The transactions of an account in the order of their creation.
CreatedOn(account_id) ==
    LET OfAccount(transaction) == transaction.account_id = account_id
    IN  SelectSeq(transactions, OfAccount)

C23_CardFrame ==
    /\ [](\A i \in 1..Len(cards) : cards[i].status = CardStatus_ACTIVE)
    /\ [][(Answers("create_card") /\ last'.code = HTTP_OK)
          => /\ Owns(pending.user, pending.account_id)
             /\ Len(cards') = Len(cards) + 1
             /\ SubSeq(cards', 1, Len(cards)) = cards
             /\ LET card == cards'[Len(cards')]
                 IN  /\ card.account_id = pending.account_id
                     /\ card.card_type = pending.card_type
                     /\ card.credit_limit = IF pending.credit_limit = {} THEN 0
                                            ELSE CHOOSE v \in pending.credit_limit : TRUE
                     /\ card.status = CardStatus_ACTIVE
                     /\ last'.body = {card}
             /\ accounts' = accounts
             /\ transactions' = transactions
             /\ transfers' = transfers]_vars

\* A second card, a CREDIT card with a positive limit, has been issued on an
\* account that has taken part in a transfer.
C23_Witness ==
    /\ last.op = "create_card"
    /\ last.code = HTTP_OK
    /\ Len(cards) = 2
    /\ Body.id = 2
    /\ Body.card_type = "CREDIT"
    /\ Body.credit_limit = MaxAmount
    /\ Len(transfers) = 1
    /\ Body.account_id \in {transfers[1].from_account_id, transfers[1].to_account_id}


\* C24: CreateCard with a credit limit < 0 is refused as an invalid amount
\* and stores no card; every stored card has a credit limit >= 0.
C24_NegativeCreditLimitRejected ==
    /\ [](\A i \in 1..Len(cards) : cards[i].credit_limit >= 0)
    /\ [][(Answers("create_card") /\ \E v \in pending.credit_limit : v < 0)
          => /\ last'.code = HTTP_UNPROCESSABLE
             /\ cards' = cards]_vars


\* C25: in every reachable state no two accounts have the same account
\* number, no two transactions the same reference number, no two transfers
\* the same reference number and no two cards the same card number, whatever
\* the generators return, values in use included.
C25_IdentifiersUnique ==
    /\ \A i, j \in AccountIds :
          accounts[i].account_number = accounts[j].account_number => i = j
    /\ \A i, j \in 1..Len(transactions) :
          transactions[i].reference_number = transactions[j].reference_number => i = j
    /\ \A i, j \in 1..Len(transfers) :
          transfers[i].reference_number = transfers[j].reference_number => i = j
    /\ \A i, j \in 1..Len(cards) :
          cards[i].card_number = cards[j].card_number => i = j

\* The generator of card numbers has returned the number of the stored card
\* and the request was refused on the unique constraint, in a store with two
\* accounts, two transfers and their four transactions.
C25_Witness ==
    /\ last.op = "create_card"
    /\ last.code = HTTP_SERVER_ERROR
    /\ last.detail = {"IntegrityError"}
    /\ Len(accounts) = 2
    /\ Len(transactions) = 4
    /\ Len(transfers) = 2
    /\ Len(cards) = 1


\* Two addresses of one mailbox: domain names do not distinguish case.
SameAddress(email, other) == email[1] = other[1] /\ lower(email[2]) = lower(other[2])

\* C26: Signup with an e-mail address that is registered is refused and
\* stores no user; after any sequence of signups no two users have the same
\* e-mail address.
C26_DuplicateEmailRejected ==
    /\ [](\A i, j \in 1..Len(users) : SameAddress(users[i].email, users[j].email) => i = j)
    /\ [][(Answers("signup") /\ \E i \in 1..Len(users) :
                                    SameAddress(users[i].email, pending.email))
          => /\ last'.code # HTTP_OK
             /\ users' = users]_vars

\* With two users registered, a signup with the address of one of them has
\* been refused as already registered.
C26_Witness ==
    /\ last.op = "signup"
    /\ last.code = HTTP_BAD_REQUEST
    /\ last.detail = {"Email already registered"}
    /\ Len(users) = 2


\* Session s serves a transfer out of account A.
TransferOutOf(s, A) ==
    /\ sessions[s].request.op = "create_transfer"
    /\ sessions[s].request.account_id = A

\* C27: of two concurrent CreateTransfer requests out of one source account,
\* each of an amount <= the balance of the source and the two amounts
\* together more than it, never both are accepted, and the balance of the
\* source is never negative, whatever the interleaving of their steps.
C27_ConcurrentTransfers ==
    \A A \in AccountIds :
        ( /\ Len(sessions) = 2
          /\ TransferOutOf(1, A) /\ TransferOutOf(2, A)
          /\ sessions[1].request.amount <= OpeningBalance[A]
          /\ sessions[2].request.amount <= OpeningBalance[A]
          /\ sessions[1].request.amount + sessions[2].request.amount > OpeningBalance[A] )
        => /\ ~(sessions[1].code = HTTP_OK /\ sessions[2].code = HTTP_OK)
           /\ accounts[A].balance >= 0

RECURSIVE TotalBalance(_)
\* The sum of the balances of accounts 1..n.
TotalBalance(n) == IF n = 0 THEN 0 ELSE TotalBalance(n - 1) + accounts[n].balance

RECURSIVE TotalOpeningBalance(_)
TotalOpeningBalance(n) ==
    IF n = 0 THEN 0 ELSE TotalOpeningBalance(n - 1) + OpeningBalance[n]

\* C28: when concurrent CreateTransfer requests, with no standalone credit or
\* debit among them, have all been answered, the sum of the balances of all
\* accounts is what it was before them, whatever the interleaving.
C28_TransfersConserveMoney ==
    ( /\ AllDone
      /\ \A s \in SessionIds : sessions[s].request.op = "create_transfer" )
    => TotalBalance(Len(accounts)) = TotalOpeningBalance(Len(accounts))


\* The step in which session s commits and its request is accepted.
Commits(s) ==
    /\ sessions[s].pc = "staged"
    /\ sessions'[s].pc = "done"
    /\ sessions'[s].code = HTTP_OK

\* The Transaction rows written by transfers.
TransferTransactions ==
    {i \in 1..Len(transactions) : Len(transactions[i].description) = 3}

\* C29: no partial transfer is observable.  In every step the balances and
\* the records change only by the commit of one session; the commit of a
\* transfer writes the debited balance of the source, the credited balance of
\* the destination, the Transfer record and the DEBIT and CREDIT Transaction
\* records in that one step; and in every reachable state every accepted
\* transfer has its Transfer record, every Transfer record its two
\* Transaction records, and there are no others.
C29_NoPartialTransfer ==
    /\ [](/\ Cardinality({s \in Succeeded : sessions[s].request.op = "create_transfer"})
              = Len(transfers)
          /\ Cardinality(TransferTransactions) = 2 * Len(transfers)
          /\ \A i \in 1..Len(transfers) :
                \E d, c \in TransferTransactions :
                    /\ transactions[d].account_id = transfers[i].from_account_id
                    /\ transactions[d].transaction_type = TransactionType_DEBIT
                    /\ transactions[d].description[2] = transfers[i].to_account_id
                    /\ transactions[d].amount = transfers[i].amount
                    /\ transactions[c].account_id = transfers[i].to_account_id
                    /\ transactions[c].transaction_type = TransactionType_CREDIT
                    /\ transactions[c].description[2] = transfers[i].from_account_id
                    /\ transactions[c].amount = transfers[i].amount)
    /\ [][/\ <<accounts, transactions, transfers>>' # <<accounts, transactions, transfers>>
             => \E s \in SessionIds : Commits(s)
          /\ \A s \in SessionIds :
                (Commits(s) /\ sessions[s].request.op = "create_transfer")
                => LET S == sessions[s].request.account_id
                       D == sessions[s].request.to_account_id
                       amount == sessions[s].request.amount
                   IN  /\ accounts'[S].balance = sessions[s].read[S] - amount
                       /\ accounts'[D].balance = sessions[s].read[D] + amount
                       /\ Len(transfers') = Len(transfers) + 1
                       /\ transfers'[Len(transfers')].from_account_id = S
                       /\ transfers'[Len(transfers')].to_account_id = D
                       /\ transfers'[Len(transfers')].amount = amount
                       /\ Len(transactions') = Len(transactions) + 2
                       /\ transactions'[Len(transactions) + 1].account_id = S
                       /\ transactions'[Len(transactions) + 1].transaction_type
                            = TransactionType_DEBIT
                       /\ transactions'[Len(transactions) + 2].account_id = D
                       /\ transactions'[Len(transactions) + 2].transaction_type
                            = TransactionType_CREDIT
          /\ \A s \in SessionIds :
                (Commits(s) /\ sessions[s].request.op = "create_transaction")
                => transfers' = transfers /\ Len(transactions') = Len(transactions) + 1]_vars

\* A transfer has been committed while another session, which read the
\* source before that commit, holds the balances it is about to write.
C29_Witness ==
    /\ Len(transfers) = 1
    /\ \E s, t \in SessionIds :
          /\ s \in Succeeded
          /\ sessions[s].request.op = "create_transfer"
          /\ sessions[t].pc = "staged"
          /\ sessions[t].read[transfers[1].from_account_id]
               # accounts[transfers[1].from_account_id].balance


\* Sessions s and t serve transfers in opposite directions between one pair
\* of accounts.
Opposite(s, t) ==
    /\ {s, t} \subseteq SessionIds
    /\ sessions[s].request.op = "create_transfer"
    /\ sessions[t].request.op = "create_transfer"
    /\ sessions[s].request.account_id # sessions[s].request.to_account_id
    /\ sessions[s].request.account_id = sessions[t].request.to_account_id
    /\ sessions[s].request.to_account_id = sessions[t].request.account_id

\* The responses that end a transfer: accepted, a business error, or the
\* error of the unique constraint when a generated reference is in use.
Completed(s) ==
    /\ s \in SessionIds
    /\ sessions[s].pc = "done"
    /\ \/ sessions[s].code \in {HTTP_OK, HTTP_BAD_REQUEST, HTTP_NOT_FOUND}
       \/ sessions[s].detail = {"IntegrityError"}

\* C30: two concurrent CreateTransfer requests A -> B and B -> A on one pair
\* of accounts are both answered eventually, each accepted or refused with
\* an error; neither waits for the other forever.
C30_OppositeTransfersComplete ==
    Opposite(1, 2) ~> (Completed(1) /\ Completed(2))

\* Both opposite transfers have been accepted: the one into the empty
\* account first, then the one out of it.
C30_Witness ==
    /\ Opposite(1, 2)
    /\ sessions[1].code = HTTP_OK
    /\ sessions[2].code = HTTP_OK
    /\ Len(transfers) = 2


RECURSIVE LedgerSum(_, _)
\* The amounts of the first n Transaction records on account i, those of the
\* CREDIT records added and those of the DEBIT records subtracted.
LedgerSum(n, i) ==
    IF n = 0 THEN 0
    ELSE LedgerSum(n - 1, i)
         + (IF transactions[n].account_id # i THEN 0
            ELSE IF transactions[n].transaction_type = TransactionType_CREDIT
            THEN transactions[n].amount
            ELSE 0 - transactions[n].amount)

\* C31: in every reachable state the balance of each account is its initial
\* balance plus the amounts of its CREDIT Transaction records minus the
\* amounts of its DEBIT Transaction records.
C31_LedgerReconciles ==
    \A i \in AccountIds :
        accounts[i].balance = OpeningBalance[i] + LedgerSum(Len(transactions), i)


\* C32: records are append-only.  Every Transaction and every Transfer record
\* of a state is in every later state with its account ids, type, amount,
\* reference number and timestamp; no step removes an account or changes its
\* owner, id or account number.
C32_AppendOnly ==
    [][/\ Len(transactions') >= Len(transactions)
       /\ \A i \in 1..Len(transactions) :
             /\ transactions'[i].id = transactions[i].id
             /\ transactions'[i].account_id = transactions[i].account_id
             /\ transactions'[i].transaction_type = transactions[i].transaction_type
             /\ transactions'[i].amount = transactions[i].amount
             /\ transactions'[i].reference_number = transactions[i].reference_number
             /\ transactions'[i].timestamp = transactions[i].timestamp
       /\ Len(transfers') >= Len(transfers)
       /\ \A i \in 1..Len(transfers) :
             /\ transfers'[i].id = transfers[i].id
             /\ transfers'[i].from_account_id = transfers[i].from_account_id
             /\ transfers'[i].to_account_id = transfers[i].to_account_id
             /\ transfers'[i].amount = transfers[i].amount
             /\ transfers'[i].reference_number = transfers[i].reference_number
             /\ transfers'[i].timestamp = transfers[i].timestamp
       /\ Len(accounts') >= Len(accounts)
       /\ \A i \in AccountIds :
             /\ accounts'[i].id = accounts[i].id
             /\ accounts'[i].user_id = accounts[i].user_id
             /\ accounts'[i].account_number = accounts[i].account_number]_vars

\* A second transfer has been written after the clock moved on: the records
\* of the first one are stored beside it with their earlier timestamp.
C32_Witness ==
    /\ last.op = "create_transfer"
    /\ last.code = HTTP_OK
    /\ Len(transfers) = 2
    /\ transfers[1].timestamp < transfers[2].timestamp
    /\ transactions[1].timestamp < transactions[Len(transactions)].timestamp


\* C33: a generated account number or card number that is in use is never
\* surfaced to the caller: CreateAccount, and CreateCard on an account of the
\* caller, are accepted and store the new row whatever the generator returns
\* first.
C33_CollisionRetried ==
    [][/\ Answers("create_account")
          => last'.code = HTTP_OK /\ Len(accounts') = Len(accounts) + 1
       /\ (Answers("create_card") /\ Owns(pending.user, pending.account_id))
          => last'.code = HTTP_OK /\ Len(cards') = Len(cards) + 1]_vars


\* The endpoints that read.
ReadEndpoints ==
    {"get_account", "get_user_accounts", "get_account_transactions",
     "get_user_transfers", "get_account_cards", "get_account_statement"}

\* C34: GetAccount, ListAccounts, ListTransactions, ListTransfers, ListCards
\* and GetStatement, accepted or refused, leave every Account with its
\* balance and every Transaction, Transfer and Card record as they are.
C34_ReadsEffectFree ==
    [][(\E op \in ReadEndpoints : Answers(op))
       => /\ accounts' = accounts
          /\ transactions' = transactions
          /\ transfers' = transfers
          /\ cards' = cards]_vars

\* A statement has been refused for a text that is no date while the store
\* holds a transfer with its transactions and a card.
C34_Witness ==
    /\ last.op = "get_account_statement"
    /\ last.code = HTTP_SERVER_ERROR
    /\ Len(transfers) = 1
    /\ Len(transactions) = 2
    /\ Len(cards) = 1

\* ---------------------------------------------------------------------
\* C35: when several conditions fail at once, create_transfer reports them
\* in a fixed order. A request whose amount is not positive or whose two
\* accounts are the same is refused with the validators' messages before any
\* account is looked up; otherwise a source the caller does not own (absent
\* or someone else's) gives 404 "Source account not found", whatever its
\* balance; otherwise an absent destination gives 404 "Destination account
\* not found", whatever the balance; and only then does a balance below the
\* amount give 400 "Insufficient funds".
TransferInvalid ==
    \/ pending.amount <= 0
    \/ pending.account_id = pending.to_account_id

TransferLookups ==
    create_transfer_result(pending.user, pending.account_id,
                           pending.to_account_id, pending.amount).reads

C35_TransferErrorPriority ==
    [][Answers("create_transfer") =>
        /\ TransferInvalid =>
              /\ last'.code = HTTP_UNPROCESSABLE
              /\ last'.detail # {}
              /\ last'.detail \subseteq {"Amount must be positive",
                                         "Cannot transfer to the same account"}
              /\ TransferLookups = {}
        /\ (~TransferInvalid /\ ~Owns(pending.user, pending.account_id)) =>
              /\ last'.code = HTTP_NOT_FOUND
              /\ last'.detail = {"Source account not found"}
        /\ (/\ ~TransferInvalid
            /\ Owns(pending.user, pending.account_id)
            /\ pending.to_account_id \notin AccountIds) =>
              /\ last'.code = HTTP_NOT_FOUND
              /\ last'.detail = {"Destination account not found"}
        /\ (/\ ~TransferInvalid
            /\ Owns(pending.user, pending.account_id)
            /\ pending.to_account_id \in AccountIds
            /\ accounts[pending.account_id].balance < pending.amount) =>
              /\ last'.code = HTTP_BAD_REQUEST
              /\ last'.detail = {"Insufficient funds"}]_vars

\* A transfer is in flight from an account of another user whose balance is
\* below the amount, to an account that does not exist: three failures at
\* once.
C35_Witness ==
    /\ pending.op = "create_transfer"
    /\ ~TransferInvalid
    /\ pending.account_id \in AccountIds
    /\ ~Owns(pending.user, pending.account_id)
    /\ accounts[pending.account_id].balance < pending.amount
    /\ pending.to_account_id \notin AccountIds

\* ---------------------------------------------------------------------
\* C36: a well-formed CreateTransaction (amount > 0) and any CreateCard that
\* names an account the caller does not own, absent or someone else's, is
\* answered 404 "Account not found" whatever the account's balance and
\* whatever the identifier generator would return: the answer is never 400
\* nor the 500 of a rejected identifier, no Transaction and no Card is
\* stored, and no balance changes.
C36_NotFoundFirst ==
    [][\A op \in {"create_transaction", "create_card"} :
          ( /\ Answers(op)
            /\ ~Owns(pending.user, pending.account_id)
            /\ op = "create_transaction" => pending.amount > 0 )
          => /\ last'.code = HTTP_NOT_FOUND
             /\ last'.detail = {"Account not found"}
             /\ last'.body = {}
             /\ Len(transactions') = Len(transactions)
             /\ Len(cards') = Len(cards)
             /\ \A i \in AccountIds : accounts'[i].balance = accounts[i].balance]_vars

\* A DEBIT above the balance is in flight on the account of the other user,
\* while a transaction and a card are stored whose identifiers the
\* generators could return again.
C36_Witness ==
    /\ pending.op = "create_transaction"
    /\ pending.transaction_type = TransactionType_DEBIT
    /\ pending.account_id \in AccountIds
    /\ ~Owns(pending.user, pending.account_id)
    /\ pending.amount > accounts[pending.account_id].balance
    /\ Len(transactions) > 0
    /\ Len(cards) > 0

\* ---------------------------------------------------------------------
\* C37: every card number CreateCard stores or returns is a string of
\* exactly 16 characters, each a decimal digit, and its leading digit is 4,
\* the one prefix the issuer uses for DEBIT and CREDIT cards alike, whatever
\* integer random.randint returned.
CardNumberLength == 16

WellFormedCardNumber(card_number) ==
    /\ Len(card_number) = CardNumberLength
    /\ \A k \in 1..Len(card_number) : card_number[k] \in 0..9
    /\ card_number[1] = 4

C37_CardNumberFormat ==
    /\ \A i \in 1..Len(cards) : WellFormedCardNumber(cards[i].card_number)
    /\ (last.op = "create_card" /\ last.code = HTTP_OK)
         => WellFormedCardNumber(Body.card_number)

\* Two cards are stored, a DEBIT and a CREDIT one, whose numbers came from
\* the least and the greatest integer randint can return.
C37_Witness ==
    /\ Len(cards) = 2
    /\ {cards[1].card_type, cards[2].card_type} = CardType
    /\ {cards[1].card_number, cards[2].card_number}
         = {<<4, 1, 0, 0, 0, 0, 0, 0, 0, 0, 0, 0, 0, 0, 0, 0>>,
            <<4, 9, 9, 9, 9, 9, 9, 9, 9, 9, 9, 9, 9, 9, 9, 9>>}

====
